---- MODULE Spec2Model ----
(***************************************************************************)
(* AriaExecutionLoop (src/core/execution_loop.py): perfect_loop, the       *)
(* validate / execute / test / scan / fix loop that refines one generated  *)
(* file; the sandbox calls it makes and what they create and leave behind; *)
(* the coroutines that run it on one AriaExecutionLoop instance; and       *)
(* generate_perfect_code, which runs it on each generated file and then    *)
(* checks, optimizes and reviews the files.                                *)
(*                                                                         *)
(* A file's text is abstracted to the facts the loop reads from it: which  *)
(* of the five gates it fails, and whether it is source text or the        *)
(* "Error: ..." string AriaAgent.chat returns when the model call raises.  *)
(***************************************************************************)
EXTENDS Integers, Sequences, FiniteSets, TLC

\* self.max_fix_attempts = 10 (AriaExecutionLoop.__init__)
max_fix_attempts == 10

\* A text of the model fails at most this many gates at once.
MaxDefects == 1

\* Largest number of pytest output lines containing 'passed' that is modelled.
MaxPassedLines == 1

\* The coroutines running perfect_loop on the one AriaExecutionLoop instance
\* that enhance_aria_with_execution creates for an agent.
Tasks == {"t1", "t2"}

\* The perfect_loop calls of one generate_perfect_code call, in the order of
\* `for file_info in files_created`.
LoopTask == <<"t1", "t2">>

\* The five checks of perfect_loop, in the order of its Step 1 .. Step 5.
Gates == <<"syntax", "static", "execution", "tests", "security">>

GateNames == {Gates[i] : i \in 1..Len(Gates)}

\* The texts of the model: defects = the gates the text fails, err = the text
\* is the "Error: <exception>" string of AriaAgent.chat, not model output.
Contents ==
    {[defects |-> d, err |-> e] :
        d \in {s \in SUBSET GateNames : Cardinality(s) <= MaxDefects},
        e \in BOOLEAN}

\* Source texts: what a generated file holds and what the model answers.
Sources == {c \in Contents : ~c.err}

\* The values of the test text that generate_tests gets from chat: nothing,
\* tests that exercise the module, or text pytest cannot pass (wrong tests,
\* prose, the "Error: ..." string of a failed chat).
TestTexts == {"", "ok", "bad"}

VARIABLES
    fix_attempts,   \* self.fix_attempts, one per AriaExecutionLoop instance
    docker_client,  \* self.docker_client is set (TRUE) or None (FALSE)
    host,           \* the backends that work when an execution is attempted
    manners,        \* how a text with an execution defect can fail when it is run
    fixer,          \* the strings aria_agent.chat can return to a fix prompt
    author,         \* the strings it can return to the generate_tests prompt
    started,        \* the tasks whose perfect_loop call is made
    running,        \* the task the event loop is executing, or "none"
    pc,             \* each task's position in perfect_loop
    file_info,      \* each task's file_info argument
    code,           \* each task's local `code`
    exec_result,    \* each task's local `exec_result`
    tests,          \* each task's local `tests`
    test_result,    \* each task's local `test_result`
    result,         \* what each task's perfect_loop call returned
    evaluated,      \* history: the gates evaluated in the task's current iteration
    iteration,      \* history: the number of loop bodies the task has entered
    fixes,          \* history: the number of fix steps the task has taken
    lastFix,        \* history: what the task's latest fix step returned
    requests,       \* history: the fix requests made in the task's current iteration
    spawned,        \* history: what the task's sandbox calls created in the iteration
    leftover,       \* history: what of it still exists after the calls returned
    ran,            \* history: how the text behaved when the iteration executed it
    gpc,            \* the position of the generate_perfect_code call
    reported,       \* the number of files its execute_plan call reported
    files_created,  \* its local `files_created`: the number of those files it found
    perfect_files,  \* its local `perfect_files`
    integration_result, \* its local `integration_result`
    integration_sandbox, \* history: what test_integration created, and what is left
    optimized_files, \* its local `optimized_files`
    reviewed_files, \* its local `reviewed_files`
    returned,       \* what the generate_perfect_code call returned
    trinity_client, \* what the agent's attribute trinity_client is, if it has one
    reviewers,      \* the reviewers that client consults, in order
    opinions,       \* what each reviewer can answer to the review prompt
    judge,          \* what chat can answer to the analysis prompt
    rpc,            \* the position of trinity_code_review in its loop body
    calls,          \* the reviewer calls of the consultation under way
    trinity_review, \* the local `trinity_review`
    aria_decision,  \* the local `aria_decision`
    reviewlog,      \* history: per file, the review steps taken and requests made
    memory,         \* whether the Memory Hub can be reached
    stored,         \* history: how the agent's calls of the Memory Hub ended
    epc,            \* the position of the create_autonomous_software call
    skip_github,    \* its argument skip_github
    skip_aws,       \* its argument skip_aws
    creation,       \* its local `result`, and what the call returned
    phases          \* history: the phases it started after Phase 1, and how each ended

vars == <<fix_attempts, docker_client, host, manners, fixer, author, started, running, pc, file_info,
          code, exec_result, tests, test_result, result, evaluated, iteration,
          fixes, lastFix, requests, spawned, leftover, ran, gpc, files_created,
          perfect_files, integration_result, integration_sandbox, optimized_files,
          reviewed_files, returned, trinity_client, reviewers, opinions, judge, rpc,
          calls, trinity_review, aria_decision, reviewlog, memory, stored,
          reported, epc, skip_github, skip_aws, creation, phases>>

locals == <<exec_result, tests, test_result>>
sandbox == <<spawned, leftover, ran>>
history == <<evaluated, iteration, fixes, lastFix, requests, sandbox>>
review == <<trinity_client, reviewers, opinions, judge, rpc, calls, trinity_review,
            aria_decision, reviewlog>>
engine == <<epc, skip_github, skip_aws, creation, phases>>
driver == <<gpc, files_created, perfect_files, integration_result, integration_sandbox,
            optimized_files, reviewed_files, returned, review, memory, stored, reported,
            engine>>
env == <<docker_client, host, manners, fixer, author, started, file_info, driver>>

None == [status |-> "none"]

\* The dict {}: the function on no key.
EmptyDict == <<>>

\* The positions where a task is suspended in `await aria_agent.chat(...)`,
\* the only awaits of perfect_loop that reach the event loop (aiohttp);
\* validate_syntax, static_analysis, security_scan, fix_static_issues,
\* subprocess.run and the docker SDK calls block without yielding.
Suspended == {"fix_syntax", "fix_runtime_errors", "generate_tests",
              "fix_test_failures", "fix_security_issues"}

\* asyncio runs one coroutine at a time and switches only at a suspension.
Yield(t, next) == IF next \in Suspended \cup {"done"} THEN "none" ELSE t

CanRun(t) == t \in started /\ running \in {"none", t}

----------------------------------------------------------------------------
\* The gates, as functions of the text.

validate_syntax(c) ==
    IF "syntax" \in c.defects
    THEN [valid |-> FALSE, errors |-> <<"SyntaxError">>]
    ELSE [valid |-> TRUE, errors |-> <<>>]

static_analysis(c) ==
    [issues |-> IF "static" \in c.defects THEN <<"formatting">> ELSE <<>>]

\* What running a text can do (the behaviour of the sandboxed process):
\* "exit0" it ends with return code 0, "crash" it ends with a traceback and a
\* non-zero return code, "timeout" it runs past the 10 seconds allowed.
Run(c) == IF "execution" \in c.defects THEN manners ELSE {"exit0"}

\* lines 319-323
TimeoutMessage == "Code execution timeout (infinite loop?)"

\* Optional keys of a result dict: dict.get(key) is None when the key is absent.
Get(d, key) == IF key \in DOMAIN d THEN d[key] ELSE "None"

\* An exception that leaves a call instead of a result.
Raised(e) == [raised |-> e]
IsRaised(res) == "raised" \in DOMAIN res

\* lines 292-328, for a process that behaves as b. subprocess.run raises when
\* "python" cannot be started (caught at line 324) and TimeoutExpired after
\* 10 seconds (caught at line 319).
execute_in_subprocess(b) ==
    IF "python" \notin host
    THEN [success |-> FALSE, errors |-> "No such file or directory: 'python'"]
    ELSE CASE b = "exit0" ->
                [success |-> TRUE, output |-> "stdout", time |-> "measured"]
           [] b = "crash" ->
                [success |-> FALSE, errors |-> "stderr", output |-> "stdout"]
           [] b = "timeout" ->
                [success |-> FALSE, errors |-> TimeoutMessage]

\* Variant: no `except Exception` around the docker calls.
execute_in_docker_Uncaught(b) ==
    IF "docker" \notin host
    THEN Raised("DockerException")
    ELSE CASE b = "exit0" ->
                [success |-> TRUE, output |-> "logs", errors |-> ""]
           [] b = "crash" ->
                [success |-> FALSE, output |-> "", errors |-> "logs"]
           [] b = "timeout" -> Raised("ReadTimeout")

\* lines 330-361. containers.run raises when the daemon cannot be reached and
\* container.wait(timeout=10) raises after 10 seconds; both are caught at 357.
execute_in_docker(b) ==
    IF "docker" \notin host
    THEN [success |-> FALSE, errors |-> "Docker execution failed: connection refused"]
    ELSE CASE b = "exit0" ->
                [success |-> TRUE, output |-> "logs", errors |-> ""]
           [] b = "crash" ->
                [success |-> FALSE, output |-> "", errors |-> "logs"]
           [] b = "timeout" ->
                [success |-> FALSE, errors |-> "Docker execution failed: read timed out"]

\* lines 279-287
execute_code(b, docker) ==
    IF docker THEN execute_in_docker(b) ELSE execute_in_subprocess(b)

\* What the backend in use made of the run: nothing is run when it is down.
Behaviour(b, docker) ==
    IF (IF docker THEN "docker" ELSE "python") \in host THEN b ELSE "unavailable"

\* What the calls create, and what of it they have released when they return.
\* subprocess.run waits for the child, and kills it and waits when the
\* timeout expires.
subprocess_created(b) == IF "python" \in host THEN {"process"} ELSE {}
subprocess_released(b) == {"process"}

\* containers.run(detach=True) creates and starts the container (line 334);
\* container.remove() is line 349, reached when wait and logs returned.
docker_created(b) == IF "docker" \in host THEN {"container"} ELSE {}
docker_released(b) ==
    IF "docker" \in host /\ b \in {"exit0", "crash"} THEN {"container"} ELSE {}

\* execute_code: NamedTemporaryFile(delete=False) at line 275, the backend at
\* lines 279-285, `finally: Path(temp_path).unlink(missing_ok=True)` at 289-290.
execute_code_created(b, docker) ==
    {"tempfile"} \cup (IF docker THEN docker_created(b) ELSE subprocess_created(b))
\* Variant: the temporary file is not unlinked.
execute_code_released_NoUnlink(b, docker) ==
    IF docker THEN docker_released(b) ELSE subprocess_released(b)

execute_code_released(b, docker) ==
    {"tempfile"} \cup (IF docker THEN docker_released(b) ELSE subprocess_released(b))

\* Variant: no early return for empty tests; pytest collects nothing and ends
\* with a non-zero return code.
run_tests_NoGuard(c, t) ==
    IF t = ""
    THEN {[all_pass |-> FALSE, count |-> 0, failures |-> <<>>, output |-> "stdout"]}
    ELSE IF t = "ok" /\ "tests" \notin c.defects
    THEN {[all_pass |-> TRUE, count |-> n, failures |-> <<>>, output |-> "stdout"] :
            n \in 1..MaxPassedLines}
    ELSE {[all_pass |-> FALSE, count |-> n, failures |-> <<"FAILED">>,
           output |-> "stdout"] : n \in 0..MaxPassedLines}

\* The results run_tests can give (a set: the output is pytest's). Line 390
\* for no tests; lines 412-425 with failures = the output lines containing
\* 'FAILED' and count = those containing 'passed'; lines 427-432 when
\* subprocess.run raises (pytest runs past 30 seconds). Tests that cannot be
\* collected end pytest with a non-zero return code and no 'FAILED' line.
run_tests(c, t) ==
    IF t = ""
    THEN {[all_pass |-> TRUE, count |-> 0]}
    ELSE IF t = "ok" /\ "tests" \notin c.defects
    THEN {[all_pass |-> TRUE, count |-> n, failures |-> <<>>, output |-> "stdout"] :
            n \in 1..MaxPassedLines}
    ELSE IF t = "ok"
    THEN {[all_pass |-> FALSE, count |-> n, failures |-> <<"FAILED">>,
           output |-> "stdout"] : n \in 0..MaxPassedLines}
    ELSE {[all_pass |-> FALSE, count |-> n, failures |-> f, output |-> "stdout"] :
            n \in 0..MaxPassedLines, f \in {<<>>, <<"FAILED">>}}
         \cup {[all_pass |-> FALSE, count |-> 0, failures |-> <<"TimeoutExpired">>]}

\* run_tests creates nothing for no tests (line 389); otherwise a
\* TemporaryDirectory (line 393), removed when the with block is left, and a
\* pytest child that subprocess.run waits for or kills.
run_tests_created(t) == IF t = "" THEN {} ELSE {"tempdir", "pytest"}
run_tests_released(t) == IF t = "" THEN {} ELSE {"tempdir", "pytest"}

security_scan(c) ==
    [vulnerabilities |-> IF "security" \in c.defects THEN <<"pattern">> ELSE <<>>]

----------------------------------------------------------------------------
\* The fixers.

\* What `await aria_agent.chat(fix_prompt)` can return: the model's answer
\* (line 271), or "Error: <exception>" when the client raises (lines 273-275).
chat == fixer

\* `result if isinstance(result, str) else result.get("response", code)`:
\* chat returns a str on every path, so the fix is the chat result.
FixFromChat(res, c) == res

\* fix_static_issues: black then autopep8; the text keeps its behaviour, and
\* is left as it was when a formatter raises.
fix_static_issues(c) ==
    {x \in Contents : x.err = c.err
                      /\ x.defects \ {"static"} = c.defects \ {"static"}
                      /\ x.defects \subseteq c.defects}

----------------------------------------------------------------------------
\* The state after AriaExecutionLoop() is constructed and before the calls of
\* perfect_loop. fix_attempts is 0 after __init__ and keeps the count of the
\* latest call on the instance afterwards.

\* A file of which trinity_code_review has done nothing yet.
NoSteps == [solicited |-> 0, decided |-> 0, asked |-> 0, answer |-> None, applied |-> <<>>]

\* An agent as AriaAgent.__init__ leaves it: it has no attribute
\* trinity_client (src/core/agent.py line 73 sets _trinity_client).
NoTrinity ==
    /\ trinity_client = "none"
    /\ reviewers = <<>>
    /\ opinions = EmptyDict
    /\ judge = {}

\* No create_autonomous_software call is under way.
NoEngine ==
    /\ epc = "idle"
    /\ skip_github = FALSE
    /\ skip_aws = FALSE
    /\ creation = EmptyDict
    /\ phases = <<>>

InitDriver ==
    /\ gpc = "idle"
    /\ stored = <<>>
    /\ reported = 0
    /\ files_created = 0
    /\ perfect_files = <<>>
    /\ integration_result = None
    /\ integration_sandbox = [created |-> {}, leftover |-> {}]
    /\ optimized_files = <<>>
    /\ reviewed_files = <<>>
    /\ returned = None

InitReviewLocals ==
    /\ rpc = "get_trinity_review"
    /\ calls = EmptyDict
    /\ trinity_review = None
    /\ aria_decision = None
    /\ reviewlog = [i \in 1..Len(LoopTask) |-> NoSteps]

InitLoops ==
    /\ running = "none"
    /\ pc = [t \in Tasks |-> "idle"]
    /\ code = [t \in Tasks |-> file_info[t].content]
    /\ exec_result = [t \in Tasks |-> None]
    /\ tests = [t \in Tasks |-> ""]
    /\ test_result = [t \in Tasks |-> None]
    /\ result = [t \in Tasks |-> None]
    /\ evaluated = [t \in Tasks |-> <<>>]
    /\ iteration = [t \in Tasks |-> 0]
    /\ fixes = [t \in Tasks |-> 0]
    /\ lastFix = [t \in Tasks |-> None]
    /\ requests = [t \in Tasks |-> <<>>]
    /\ spawned = [t \in Tasks |-> {}]
    /\ leftover = [t \in Tasks |-> {}]
    /\ ran = [t \in Tasks |-> "not run"]

InitCommon ==
    /\ InitLoops
    /\ InitDriver
    /\ InitReviewLocals

\* try_docker (lines 40-46) has set docker_client when docker.from_env()
\* returned. At the executions the backend in use works, or fails on every
\* call (the daemon is gone since the probe; "python" is not on the PATH).
Probe ==
    /\ docker_client \in BOOLEAN
    /\ host \in {{"python"} \cup (IF docker_client THEN {"docker"} ELSE {}),
                 IF docker_client THEN {"python"} ELSE {}}

\* One call of perfect_loop, on any file, with a model that can answer any
\* text and a client that can raise.
Init ==
    /\ started = {"t1"}
    /\ Probe
    /\ manners = {"crash", "timeout"}
    /\ fix_attempts \in 0..max_fix_attempts
    /\ fixer = Contents
    /\ author = TestTexts
    /\ NoTrinity
    /\ memory = "down"
    /\ file_info \in {[t \in Tasks |-> [filename |-> "f", content |-> c]] :
                        c \in Sources}
    /\ InitCommon
    /\ NoEngine

----------------------------------------------------------------------------
\* perfect_loop, one action per step between two awaits or gates.

\* Variant: the bound test written with <=.
WhileCond_Inclusive(n) == n <= max_fix_attempts

\* `while self.fix_attempts < self.max_fix_attempts`
WhileCond(n) == n < max_fix_attempts

\* The entry gate of an iteration (the first statement of the loop body).
FirstGate == "validate_syntax"

\* Variant: the counter of the instance is not reset at entry.
Start_NoReset(t) ==
    /\ CanRun(t)
    /\ pc[t] = "idle"
    /\ code' = [code EXCEPT ![t] = file_info[t].content]
    /\ pc' = [pc EXCEPT ![t] = "while"]
    /\ running' = t
    /\ UNCHANGED <<env, fix_attempts, locals, result, history>>

\* lines 143-145: filename, code = file_info[...]; self.fix_attempts = 0
Start(t) ==
    /\ CanRun(t)
    /\ pc[t] = "idle"
    /\ code' = [code EXCEPT ![t] = file_info[t].content]
    /\ fix_attempts' = 0
    /\ pc' = [pc EXCEPT ![t] = "while"]
    /\ running' = t
    /\ UNCHANGED <<env, locals, result, history>>

\* line 147, condition true: enter the loop body
LoopEnter(t) ==
    /\ CanRun(t)
    /\ pc[t] = "while"
    /\ WhileCond(fix_attempts)
    /\ pc' = [pc EXCEPT ![t] = FirstGate]
    /\ iteration' = [iteration EXCEPT ![t] = @ + 1]
    /\ evaluated' = [evaluated EXCEPT ![t] = <<>>]
    /\ requests' = [requests EXCEPT ![t] = <<>>]
    /\ spawned' = [spawned EXCEPT ![t] = {}]
    /\ leftover' = [leftover EXCEPT ![t] = {}]
    /\ ran' = [ran EXCEPT ![t] = "not run"]
    /\ running' = t
    /\ UNCHANGED <<env, fix_attempts, code, locals, result, fixes, lastFix>>

\* lines 221-226
BestEffortResult(t) ==
    [filename |-> file_info[t].filename, content |-> code[t],
     status |-> "best_effort", iterations |-> fix_attempts]

\* Variant: an exhausted budget is raised as an error instead of returned.
ReturnBestEffort_Raises(t) ==
    /\ CanRun(t)
    /\ pc[t] = "while"
    /\ ~WhileCond(fix_attempts)
    /\ pc' = [pc EXCEPT ![t] = "raised"]
    /\ running' = "none"
    /\ UNCHANGED <<env, fix_attempts, code, locals, result, history>>

\* line 147, condition false: the loop ends, lines 220-226
ReturnBestEffort(t) ==
    /\ CanRun(t)
    /\ pc[t] = "while"
    /\ ~WhileCond(fix_attempts)
    /\ result' = [result EXCEPT ![t] = BestEffortResult(t)]
    /\ pc' = [pc EXCEPT ![t] = "done"]
    /\ running' = "none"
    /\ UNCHANGED <<env, fix_attempts, code, locals, history>>

\* History: gate g was evaluated on the task's code with outcome ok.
Record(t, g, ok) ==
    evaluated' = [evaluated EXCEPT
                    ![t] = Append(@, [gate |-> g, content |-> code[t], passed |-> ok])]

\* The arguments of the fix call a failed gate leads to (lines 153, 161, 173,
\* 187, 199): the text and the description of that gate's failure, which the
\* fixer puts in its prompt (lines 461-477, 481-499, 503-522, 526-542).
FixRequest(g, c, description) ==
    [class |-> g, code |-> c, failures |-> description]

\* History: a gate that did not pass makes the fix call of its class.
Ask(t, ok, g, description) ==
    requests' = [requests EXCEPT
                   ![t] = IF ok THEN @
                          ELSE Append(@, FixRequest(g, code[t], description))]

\* A sandbox call of the task has returned: what it created, and what of
\* that still exists.
Sandboxed(t, created, released) ==
    /\ spawned' = [spawned EXCEPT ![t] = @ \cup created]
    /\ leftover' = [leftover EXCEPT ![t] = @ \cup (created \ released)]

Goto(t, next) ==
    /\ pc' = [pc EXCEPT ![t] = next]
    /\ running' = Yield(t, next)

\* The locals exec_result, tests and test_result are assigned before they are
\* read in every iteration: `continue` leaves them dead, and the model
\* forgets them there.
Forget(t) ==
    /\ exec_result' = [exec_result EXCEPT ![t] = None]
    /\ tests' = [tests EXCEPT ![t] = ""]
    /\ test_result' = [test_result EXCEPT ![t] = None]

\* A fix step: `code = await self.fix_...(...)`, `self.fix_attempts += 1`,
\* `continue`.
Fixed(t, new) ==
    /\ code' = [code EXCEPT ![t] = new]
    /\ fix_attempts' = fix_attempts + 1
    /\ Goto(t, "while")
    /\ Forget(t)
    /\ fixes' = [fixes EXCEPT ![t] = @ + 1]
    /\ lastFix' = [lastFix EXCEPT ![t] = new]
    /\ UNCHANGED <<env, result, evaluated, iteration, requests, sandbox>>

\* Variant: a failed syntax check does not end the iteration.
SyntaxGate_NoShortCircuit(t) ==
    /\ CanRun(t)
    /\ pc[t] = "validate_syntax"
    /\ Record(t, "syntax", validate_syntax(code[t]).valid)
    /\ Ask(t, validate_syntax(code[t]).valid, "syntax", validate_syntax(code[t]).errors)
    /\ Goto(t, "static_analysis")
    /\ UNCHANGED <<env, fix_attempts, code, locals, result, iteration, fixes, lastFix,
                   sandbox>>

\* lines 150-152: Step 1, syntax validation
SyntaxGate(t) ==
    /\ CanRun(t)
    /\ pc[t] = "validate_syntax"
    /\ LET syntax_result == validate_syntax(code[t]) IN
        /\ Record(t, "syntax", syntax_result.valid)
        /\ Ask(t, syntax_result.valid, "syntax", syntax_result.errors)
        /\ Goto(t, IF syntax_result.valid THEN "static_analysis" ELSE "fix_syntax")
    /\ UNCHANGED <<env, fix_attempts, code, locals, result, iteration, fixes, lastFix,
                   sandbox>>

\* lines 153-156: aria_agent.chat answers the fix_syntax prompt
FixSyntax(t) ==
    /\ CanRun(t)
    /\ pc[t] = "fix_syntax"
    /\ \E res \in chat : Fixed(t, FixFromChat(res, code[t]))

\* Variant: the static check leaves the text formatted.
StaticGate_Reformats(t) ==
    /\ CanRun(t)
    /\ pc[t] = "static_analysis"
    /\ LET static_result == static_analysis(code[t]) IN
        /\ Record(t, "static", static_result.issues = <<>>)
        /\ Ask(t, static_result.issues = <<>>, "static", static_result.issues)
        /\ Goto(t, IF static_result.issues = <<>> THEN "execute_code"
                   ELSE "fix_static_issues")
    /\ code' = [code EXCEPT ![t] = [@ EXCEPT !.defects = @ \ {"static"}]]
    /\ UNCHANGED <<env, fix_attempts, locals, result, iteration, fixes, lastFix,
                   sandbox>>

\* lines 158-160: Step 2, static analysis
StaticGate(t) ==
    /\ CanRun(t)
    /\ pc[t] = "static_analysis"
    /\ LET static_result == static_analysis(code[t]) IN
        /\ Record(t, "static", static_result.issues = <<>>)
        /\ Ask(t, static_result.issues = <<>>, "static", static_result.issues)
        /\ Goto(t, IF static_result.issues = <<>> THEN "execute_code"
                   ELSE "fix_static_issues")
    /\ UNCHANGED <<env, fix_attempts, code, locals, result, iteration, fixes, lastFix,
                   sandbox>>

\* lines 161-168: fix_static_issues formats the code itself, no chat
FixStatic(t) ==
    /\ CanRun(t)
    /\ pc[t] = "fix_static_issues"
    /\ \E new \in fix_static_issues(code[t]) : Fixed(t, new)

\* lines 170-172: Step 3, execution test
ExecutionGate(t) ==
    /\ CanRun(t)
    /\ pc[t] = "execute_code"
    /\ \E b \in Run(code[t]) :
        LET res == execute_code(b, docker_client) IN
        /\ Sandboxed(t, execute_code_created(b, docker_client),
                     execute_code_released(b, docker_client))
        /\ ran' = [ran EXCEPT ![t] = Behaviour(b, docker_client)]
        /\ IF IsRaised(res)
           THEN \* no handler in perfect_loop: the exception ends the call
                /\ pc' = [pc EXCEPT ![t] = "raised"]
                /\ running' = "none"
                /\ UNCHANGED <<exec_result, evaluated, requests>>
           ELSE /\ exec_result' = [exec_result EXCEPT ![t] = res]
                /\ Record(t, "execution", res.success)
                /\ Ask(t, res.success, "execution", res.errors)
                /\ Goto(t, IF res.success THEN "generate_tests"
                           ELSE "fix_runtime_errors")
    /\ UNCHANGED <<env, fix_attempts, code, tests, test_result, result, iteration,
                   fixes, lastFix>>

\* lines 173-181
FixRuntime(t) ==
    /\ CanRun(t)
    /\ pc[t] = "fix_runtime_errors"
    /\ \E res \in chat : Fixed(t, FixFromChat(res, code[t]))

\* line 184: aria_agent.chat answers the generate_tests prompt
GenerateTests(t) ==
    /\ CanRun(t)
    /\ pc[t] = "generate_tests"
    /\ \E txt \in author : tests' = [tests EXCEPT ![t] = txt]
    /\ Goto(t, "run_tests")
    /\ UNCHANGED <<env, fix_attempts, code, exec_result, test_result, result, history>>

\* Variant: a failed test run does not end the iteration.
TestGate_NoContinue(t) ==
    /\ CanRun(t)
    /\ pc[t] = "run_tests"
    /\ \E res \in run_tests(code[t], tests[t]) :
        /\ test_result' = [test_result EXCEPT ![t] = res]
        /\ Record(t, "tests", res.all_pass)
        /\ Ask(t, res.all_pass, "tests", res.failures)
        /\ Goto(t, "security_scan")
    /\ Sandboxed(t, run_tests_created(tests[t]), run_tests_released(tests[t]))
    /\ UNCHANGED <<env, fix_attempts, code, exec_result, tests, result, iteration,
                   fixes, lastFix, ran>>

\* lines 185-186: Step 4, the generated tests are run
TestGate(t) ==
    /\ CanRun(t)
    /\ pc[t] = "run_tests"
    /\ \E res \in run_tests(code[t], tests[t]) :
        /\ test_result' = [test_result EXCEPT ![t] = res]
        /\ Record(t, "tests", res.all_pass)
        /\ Ask(t, res.all_pass, "tests", res.failures)
        /\ Goto(t, IF res.all_pass THEN "security_scan" ELSE "fix_test_failures")
    /\ Sandboxed(t, run_tests_created(tests[t]), run_tests_released(tests[t]))
    /\ UNCHANGED <<env, fix_attempts, code, exec_result, tests, result, iteration,
                   fixes, lastFix, ran>>

\* lines 187-194
FixTests(t) ==
    /\ CanRun(t)
    /\ pc[t] = "fix_test_failures"
    /\ \E res \in chat : Fixed(t, FixFromChat(res, code[t]))

\* Variant: the file's original text is returned, not the fixed one.
PerfectResult_InputContent(t) ==
    [filename |-> file_info[t].filename, content |-> file_info[t].content,
     status |-> "perfect", iterations |-> fix_attempts,
     tests_passed |-> test_result[t].count,
     execution_time |-> Get(exec_result[t], "time"), security |-> "clean"]

\* Variant: the iteration number of the log line (fix_attempts + 1) is returned.
PerfectResult_OneBased(t) ==
    [filename |-> file_info[t].filename, content |-> code[t],
     status |-> "perfect", iterations |-> fix_attempts + 1,
     tests_passed |-> test_result[t].count,
     execution_time |-> Get(exec_result[t], "time"), security |-> "clean"]

\* lines 210-218
PerfectResult(t) ==
    [filename |-> file_info[t].filename, content |-> code[t],
     status |-> "perfect", iterations |-> fix_attempts,
     tests_passed |-> test_result[t].count,
     execution_time |-> Get(exec_result[t], "time"), security |-> "clean"]

\* lines 196-198 and 208-218: Step 5, security scan; clean code is returned
SecurityGate(t) ==
    /\ CanRun(t)
    /\ pc[t] = "security_scan"
    /\ LET security_result == security_scan(code[t]) IN
        /\ Record(t, "security", security_result.vulnerabilities = <<>>)
        /\ Ask(t, security_result.vulnerabilities = <<>>, "security",
               security_result.vulnerabilities)
        /\ IF security_result.vulnerabilities = <<>>
           THEN /\ result' = [result EXCEPT ![t] = PerfectResult(t)]
                /\ Goto(t, "done")
           ELSE /\ Goto(t, "fix_security_issues")
                /\ UNCHANGED result
    /\ UNCHANGED <<env, fix_attempts, code, locals, iteration, fixes, lastFix, sandbox>>

\* Variant: after a security fix only the security scan is repeated.
FixSecurity_ResumeAtGate(t) ==
    /\ CanRun(t)
    /\ pc[t] = "fix_security_issues"
    /\ \E res \in chat :
        /\ code' = [code EXCEPT ![t] = res]
        /\ lastFix' = [lastFix EXCEPT ![t] = res]
    /\ fix_attempts' = fix_attempts + 1
    /\ Goto(t, "security_scan")
    /\ fixes' = [fixes EXCEPT ![t] = @ + 1]
    /\ UNCHANGED <<env, locals, result, evaluated, iteration, requests, sandbox>>

\* lines 199-206
FixSecurity(t) ==
    /\ CanRun(t)
    /\ pc[t] = "fix_security_issues"
    /\ \E res \in chat : Fixed(t, FixFromChat(res, code[t]))

Step(t) ==
    \/ Start(t)
    \/ LoopEnter(t)
    \/ ReturnBestEffort(t)
    \/ SyntaxGate(t)
    \/ FixSyntax(t)
    \/ StaticGate(t)
    \/ FixStatic(t)
    \/ ExecutionGate(t)
    \/ FixRuntime(t)
    \/ GenerateTests(t)
    \/ TestGate(t)
    \/ FixTests(t)
    \/ SecurityGate(t)
    \/ FixSecurity(t)

Next == \E t \in Tasks : Step(t)

Spec == Init /\ [][Next]_vars

\* Two calls of perfect_loop on the same instance, as two tasks of one event
\* loop (two generate_perfect_code calls on one enhanced agent), right after
\* construction, on any file, with a model that answers working code or code with a
\* syntax error, and tests that exercise the code.
InitConc ==
    /\ started = Tasks
    /\ docker_client \in BOOLEAN
    /\ host = {"python"} \cup (IF docker_client THEN {"docker"} ELSE {})
    /\ manners = {"crash"}
    /\ fix_attempts = 0
    /\ fixer = {c \in Sources : c.defects \subseteq {"syntax"}}
    /\ author = {"ok"}
    /\ NoTrinity
    /\ memory = "down"
    /\ file_info \in {[t \in Tasks |-> [filename |-> "f", content |-> c]] :
                        c \in Sources}
    /\ InitCommon
    /\ NoEngine

ConcSpec == InitConc /\ [][Next]_vars

\* The same call under the scheduling the claim of termination assumes: every
\* external call returns, so a task that can take a step takes one.
FairSpec == Init /\ [][Next]_vars /\ WF_vars(Next)

----------------------------------------------------------------------------
\* generate_perfect_code (lines 48-136), one action per phase or awaited call.

\* The rest of the state as the phases of generate_perfect_code leave it.
loopstate == <<fix_attempts, docker_client, host, manners, fixer, author, running, pc,
               file_info, code, locals, result, history>>

\* line 60: the call is made and awaits aria_agent.code_task(task)
CallGenerate ==
    /\ gpc = "idle"
    /\ gpc' = "code_task"
    /\ UNCHANGED <<loopstate, memory, stored, reported, engine, review, started, files_created, perfect_files, integration_result,
                   integration_sandbox, optimized_files, reviewed_files, returned>>

\* AriaAgent.code_task (src/core/agent.py lines 277-314) returns its plan
code_task == [status |-> "plan_ready", awaiting_confirmation |-> TRUE]

\* lines 60-65
CodeTask ==
    /\ gpc = "code_task"
    /\ LET initial_code == code_task IN
        IF initial_code.status # "plan_ready"
        THEN /\ returned' = initial_code
             /\ gpc' = "returned"
        ELSE /\ gpc' = "execute_plan"
             /\ UNCHANGED returned
    /\ UNCHANGED <<loopstate, memory, stored, reported, engine, review, started, files_created, perfect_files, integration_result,
                   integration_sandbox, optimized_files, reviewed_files>>

\* MemoryHubClient.store_conversation / store_learning, or the import and
\* construction of the client before it: done, or an exception.
Store(m) == IF m = "up" THEN [stored |-> TRUE] ELSE Raised("ConnectionError")

\* AriaAgent._store_interaction (src/core/agent.py lines 404-420), run as a
\* task that chat creates and does not await
_store_interaction(m) ==
    IF IsRaised(Store(m)) THEN [warning |-> "Failed to store interaction"] ELSE Store(m)

\* Variant: the exception of the Memory Hub call is not caught.
_store_learning_Uncaught(m) == Store(m)

\* AriaAgent._store_learning (src/core/agent.py lines 422-439)
_store_learning(m) ==
    IF IsRaised(Store(m)) THEN [warning |-> "Failed to store learning"] ELSE Store(m)

\* AriaAgent.chat (src/core/agent.py lines 244-275): the response is returned
\* whatever becomes of the task created for _store_interaction
ChatReturns(response, task) == response

\* AriaAgent.execute_plan (src/core/agent.py lines 316-364) for a response
\* with n code blocks: the files are written, the learning is stored and the
\* result is returned
execute_plan(n, m) ==
    LET response == ChatReturns(n, _store_interaction(m))
        learned == _store_learning(m)
    IN IF IsRaised(learned) THEN learned
       ELSE [status |-> "completed", files_created |-> response]

\* lines 73-88: of the n reported names those are kept whose file exists in
\* the workspace when it is looked for (`if filepath.exists()`): all of them,
\* or fewer when a file has gone since execute_plan wrote it or the agent
\* reported a name it did not write.
files_to_process(n) == 0..n

\* lines 65-88: execute_plan wrote the files the model's answer held and
\* reports their names; none is "No code generated". The files found are
\* file_info of the first tasks of LoopTask.
ExecutePlan ==
    /\ gpc = "execute_plan"
    /\ \E n \in 0..Len(LoopTask) :
        LET execution_result == execute_plan(n, memory) IN
            IF IsRaised(execution_result)
            THEN /\ returned' = execution_result
                 /\ gpc' = "raised"
                 /\ stored' = <<_store_interaction(memory)>>
                 /\ UNCHANGED <<reported, files_created>>
            ELSE /\ stored' = <<_store_interaction(memory), _store_learning(memory)>>
                 /\ reported' = execution_result.files_created
                 /\ IF execution_result.files_created = 0
                    THEN /\ returned' = [error |-> "No code generated"]
                         /\ gpc' = "returned"
                         /\ UNCHANGED files_created
                    ELSE /\ \E found \in files_to_process(execution_result.files_created) :
                              files_created' = found
                         /\ gpc' = "perfect_loop"
                         /\ UNCHANGED returned
    /\ UNCHANGED <<loopstate, memory, engine, review, started, perfect_files, integration_result,
                   integration_sandbox, optimized_files, reviewed_files>>

\* lines 90-95: the next file's perfect_loop is called and awaited
CallLoop ==
    /\ gpc = "perfect_loop"
    /\ running = "none"
    /\ Len(perfect_files) < files_created
    /\ LoopTask[Len(perfect_files) + 1] \notin started
    /\ started' = started \cup {LoopTask[Len(perfect_files) + 1]}
    /\ UNCHANGED <<loopstate, driver>>

\* line 96: perfect_files.append(perfect_file)
LoopReturned ==
    /\ gpc = "perfect_loop"
    /\ Len(perfect_files) < files_created
    /\ LET t == LoopTask[Len(perfect_files) + 1] IN
        /\ t \in started
        /\ pc[t] = "done"
        /\ perfect_files' = Append(perfect_files, result[t])
    /\ UNCHANGED <<loopstate, memory, stored, reported, engine, review, started, gpc, files_created, integration_result,
                   integration_sandbox, optimized_files, reviewed_files, returned>>

\* test_integration (lines 556-584): the files are written to a
\* TemporaryDirectory and `import main; main.main()` is run in a child process
\* for at most 10 seconds; the outcome is the child's.
test_integration(files) ==
    {[success |-> TRUE, errors |-> "None"],
     [success |-> FALSE, errors |-> "stderr"],
     [success |-> FALSE, errors |-> "TimeoutExpired"]}

test_integration_created == {"tempdir", "process"}
test_integration_released == {"tempdir", "process"}

\* Variant: the files that failed together are marked for another round.
fix_integration_Reopens(files, errors) ==
    [i \in 1..Len(files) |-> [files[i] EXCEPT !.status = "best_effort"]]

\* fix_integration (lines 586-591): `return files`
fix_integration(files, errors) == files

\* lines 98-108: Phase 3
Integration ==
    /\ gpc = "perfect_loop"
    /\ Len(perfect_files) = files_created
    /\ IF Len(perfect_files) > 1
       THEN \E res \in test_integration(perfect_files) :
               /\ integration_result' = res
               /\ integration_sandbox' =
                     [created |-> test_integration_created,
                      leftover |-> test_integration_created \ test_integration_released]
               /\ perfect_files' = IF ~res.success
                                   THEN fix_integration(perfect_files, res.errors)
                                   ELSE perfect_files
       ELSE UNCHANGED <<integration_result, integration_sandbox, perfect_files>>
    /\ gpc' = "optimize_performance"
    /\ UNCHANGED <<loopstate, memory, stored, reported, engine, review, started, files_created, optimized_files, reviewed_files,
                   returned>>

\* lines 599-621: one file's text is replaced by the answer to the optimize
\* prompt
OptimizeFile ==
    /\ gpc = "optimize_performance"
    /\ Len(optimized_files) < Len(perfect_files)
    /\ LET f == perfect_files[Len(optimized_files) + 1] IN
        \E res \in chat :
            optimized_files' =
                Append(optimized_files,
                       [content |-> FixFromChat(res, f.content), optimized |-> TRUE] @@ f)
    /\ UNCHANGED <<loopstate, memory, stored, reported, engine, review, started, gpc, files_created, perfect_files,
                   integration_result, integration_sandbox, reviewed_files, returned>>

\* lines 110-115, 623: optimize_performance returns
Optimized ==
    /\ gpc = "optimize_performance"
    /\ Len(optimized_files) = Len(perfect_files)
    /\ gpc' = "trinity_code_review"
    /\ UNCHANGED <<loopstate, memory, stored, reported, engine, review, started, files_created, perfect_files, integration_result,
                   integration_sandbox, optimized_files, reviewed_files, returned>>

----------------------------------------------------------------------------
\* The review of the phase "trinity_code_review": texts are sequences of
\* lines, dicts are functions on their keys, {} is the function on no key.

\* The reviewers of the modelled panel.
ReviewerNames == {"claude", "gpt"}

\* Largest number of lines of a reviewer's response that is modelled.
MaxLines == 2

\* Largest number of lines of the answer to the analysis prompt.
MaxVerdicts == 2

\* d[key] = value
Put(d, key, value) == (key :> value) @@ d

\* d.get(key, default)
GetOr(d, key, default) == IF key \in DOMAIN d THEN d[key] ELSE default

\* The words that stand between the blanks, colons and dashes of the texts.
Words == {"0", "1", "2", "9", "one", "", "bug", "style", "good"}

\* str.strip(), on a word with blanks around it
strip(s) ==
    IF \E w \in Words : s \in {" " \o w, w \o " ", " " \o w \o " "}
    THEN CHOOSE w \in Words : s \in {" " \o w, w \o " ", " " \o w \o " "}
    ELSE s

\* str(n) of an f-string
str(n) == CASE n = 0 -> "0" [] n = 1 -> "1" [] n = 2 -> "2" [] n = 3 -> "3"
            [] n = 4 -> "4" [] n = 5 -> "5" [] n = 6 -> "6" [] n = 7 -> "7"
            [] n = 8 -> "8" [] OTHER -> "9"

\* int(s) raises ValueError unless s is a numeral
IsNumeral(s) == \E n \in 0..9 : str(n) = s
int(s) == CHOOSE n \in 0..9 : str(n) = s

\* The labels a line of a response is tested for with startswith.
Labels == {"Category:", "Priority:", "Description:", "Fix:", "Recommended:", "Rationale:"}

\* The key a label line sets on current_suggestion (lines 764-778).
KeyOf(label) ==
    CASE label = "Priority:" -> "priority"
      [] label = "Description:" -> "description"
      [] label \in {"Fix:", "Recommended:"} -> "fix"
      [] OTHER -> "rationale"

\* Variant: every line belongs to a suggestion of the response's model.
ParseLine_EveryLine(line, model_name, st) ==
    CASE line.head = "Category:" ->
            [current |-> [model |-> model_name, category |-> strip(line.rest)],
             suggestions |-> IF st.current # EmptyDict
                             THEN Append(st.suggestions, st.current)
                             ELSE st.suggestions]
      [] line.head \in Labels \ {"Category:"} ->
            [st EXCEPT !.current = Put(Put(@, "model", model_name), KeyOf(line.head),
                                       strip(line.rest))]
      [] OTHER ->
            [st EXCEPT !.current = Put(@, "model", model_name)]

\* lines 754-778: the body of `for line in lines`, a line being the label or
\* word it starts with and the rest of it; st holds current_suggestion and
\* suggestions.
ParseLine(line, model_name, st) ==
    CASE line.head = "Category:" ->
            [current |-> [model |-> model_name, category |-> strip(line.rest)],
             suggestions |-> IF st.current # EmptyDict
                             THEN Append(st.suggestions, st.current)
                             ELSE st.suggestions]
      [] line.head \in Labels \ {"Category:"} ->
            [st EXCEPT !.current = Put(@, KeyOf(line.head), strip(line.rest))]
      [] OTHER -> st

RECURSIVE ParseLines(_, _, _)
ParseLines(lines, model_name, st) ==
    IF lines = <<>> THEN st
    ELSE ParseLines(Tail(lines), model_name, ParseLine(Head(lines), model_name, st))

\* lines 745-780: the body of `for model_response in ...`
RECURSIVE ParseResponses(_, _)
ParseResponses(responses, suggestions) ==
    IF responses = <<>> THEN suggestions
    ELSE LET model_response == Head(responses)
             model_name == GetOr(model_response, "model", "unknown")
             content == GetOr(model_response, "response", <<>>)
             st == ParseLines(content, model_name,
                              [current |-> EmptyDict, suggestions |-> suggestions])
         IN ParseResponses(Tail(responses),
                           IF st.current # EmptyDict
                           THEN Append(st.suggestions, st.current)
                           ELSE st.suggestions)

\* parse_trinity_suggestions (lines 739-782)
parse_trinity_suggestions(trinity_response) ==
    ParseResponses(GetOr(trinity_response, "responses", <<>>), <<>>)

\* str.split("-", 1) of a text given as its pieces between the dashes
RECURSIVE JoinDash(_)
JoinDash(pieces) ==
    IF Len(pieces) = 1 THEN pieces[1]
    ELSE pieces[1] \o "-" \o JoinDash(Tail(pieces))

SplitDash(pieces) ==
    IF Len(pieces) = 1 THEN <<pieces[1]>>
    ELSE <<pieces[1], JoinDash(Tail(pieces))>>

\* isinstance(x, str): a text is given by its lines
IsStr(x) == "lines" \in DOMAIN x

\* Variant: an index past the end stands for the last suggestion.
Verdict_Clamps(line, suggestions, verdicts) ==
    LET parts == SplitDash(line.rest) IN
        IF ~IsNumeral(strip(parts[1])) THEN verdicts
        ELSE LET idx == int(strip(parts[1]))
                 reason == IF Len(parts) > 1 THEN strip(parts[2]) ELSE "No reason"
             IN Append(verdicts,
                       Put(suggestions[IF idx < Len(suggestions) THEN idx + 1
                                       ELSE Len(suggestions)],
                           "aria_reasoning", reason))

\* lines 845-856 and 859-870: the list after one APPROVE: or REJECT: line, the
\* rest of the line being its pieces between dashes; `except: pass` when
\* int() raises
Verdict(line, suggestions, verdicts) ==
    LET parts == SplitDash(line.rest) IN
        IF ~IsNumeral(strip(parts[1])) THEN verdicts
        ELSE LET idx == int(strip(parts[1]))
                 reason == IF Len(parts) > 1 THEN strip(parts[2]) ELSE "No reason"
             IN IF 0 <= idx /\ idx < Len(suggestions)
                THEN Append(verdicts, Put(suggestions[idx + 1], "aria_reasoning", reason))
                ELSE verdicts

\* lines 840-870: the body of `for i, line in enumerate(lines)`
ParseVerdictLine(line, suggestions, st) ==
    CASE line.head = "APPROVE:" ->
            [st EXCEPT !.approved = Verdict(line, suggestions, @)]
      [] line.head = "REJECT:" ->
            [st EXCEPT !.rejected = Verdict(line, suggestions, @)]
      [] OTHER -> st

RECURSIVE ParseVerdicts(_, _, _)
ParseVerdicts(lines, suggestions, st) ==
    IF lines = <<>> THEN st
    ELSE ParseVerdicts(Tail(lines), suggestions,
                       ParseVerdictLine(Head(lines), suggestions, st))

\* Variant: an answer with no verdict in it approves every suggestion.
ParseDecision_ApprovesByDefault(aria_response, suggestions) ==
    LET lines == IF IsStr(aria_response) THEN aria_response.lines ELSE <<>>
        st == ParseVerdicts(lines, suggestions, [approved |-> <<>>, rejected |-> <<>>])
        approved == IF st.approved = <<>> /\ st.rejected = <<>> THEN suggestions
                    ELSE st.approved
    IN [implement_suggestions |-> Len(approved) > 0,
        approved_suggestions |-> approved,
        rejected_suggestions |-> st.rejected,
        reasoning |-> "Approved " \o str(Len(approved)) \o ", Rejected "
                      \o str(Len(st.rejected))]

\* lines 834-880: the decision read from the answer to the analysis prompt
ParseDecision(aria_response, suggestions) ==
    LET lines == IF IsStr(aria_response) THEN aria_response.lines ELSE <<>>
        st == ParseVerdicts(lines, suggestions, [approved |-> <<>>, rejected |-> <<>>])
    IN [implement_suggestions |-> Len(st.approved) > 0,
        approved_suggestions |-> st.approved,
        rejected_suggestions |-> st.rejected,
        reasoning |-> "Approved " \o str(Len(st.approved)) \o ", Rejected "
                      \o str(Len(st.rejected))]

\* The texts of the review: a line is the word or label it starts with and
\* the rest of it.
Line(head, rest) == [head |-> head, rest |-> rest]

ReviewLines == {Line(h, r) : h \in Labels \cup {"Looks", "category:"},
                             r \in {" bug", " style "}}

\* A reviewer's responses of at most MaxLines lines.
ReviewTexts == UNION {[1..n -> ReviewLines] : n \in 0..MaxLines}

\* A response in no line of which a label stands first, and one that makes a
\* suggestion.
Unlabelled == <<Line("Looks", " good")>>
Suggests(category) == <<Line("Category:", " " \o category), Line("Fix:", " good")>>

\* The lines of an answer to the analysis prompt; the rest of a line is given
\* by its pieces between dashes: " 1 - good" is <<" 1 ", " good">> and
\* " -1 - good" is <<" ", "1 ", " good">>.
VerdictLines == {Line(h, r) : h \in {"APPROVE:", "REJECT:", "Error:"},
                              r \in {<<" 0 ", " good">>, <<" 1">>, <<" 2 ", " good">>,
                                     <<" 9">>, <<" one ", " good">>,
                                     <<" ", "1 ", " good">>}}

\* What chat returns: a text, or a value that is no str.
Text(lines) == [lines |-> lines]
NotText == [response |-> "None"]

\* The answers of at most MaxVerdicts lines.
Answers == {Text(l) : l \in UNION {[1..n -> VerdictLines] : n \in 0..MaxVerdicts}}
           \cup {NotText}

\* The "Error: <exception>" string of AriaAgent.chat, an answer that is no
\* text, and answers that approve one, both or none of two suggestions.
SomeAnswers ==
    {Text(<<Line("Error:", <<" timeout">>)>>),
     NotText,
     Text(<<Line("APPROVE:", <<" 0 ", " good">>), Line("REJECT:", <<" 1 ", " good">>)>>),
     Text(<<Line("APPROVE:", <<" 1">>), Line("APPROVE:", <<" 0">>)>>),
     Text(<<Line("REJECT:", <<" 0">>)>>)}

\* The file trinity_code_review is working on (`for file_info in files`).
Reviewing == Len(reviewed_files) + 1

Log(key, value) == [reviewlog EXCEPT ![Reviewing] = Put(@, key, value)]

\* The calls of one consultation, keyed by reviewer.
Pending == [state |-> "pending"]
Failed == [state |-> "failed"]
Done(text) == [state |-> "done", response |-> text]

\* What the consultation returns: the responses of the reviewers that
\* answered, in the order of the reviewers.
RECURSIVE Responses(_, _)
Responses(rs, c) ==
    IF rs = <<>> THEN <<>>
    ELSE IF c[Head(rs)].state = "done"
         THEN <<[model |-> Head(rs), response |-> c[Head(rs)].response]>>
              \o Responses(Tail(rs), c)
         ELSE Responses(Tail(rs), c)

\* Variant: the consultation returns responses only when every reviewer
\* answered.
consult_AllOrNothing(rs, c) ==
    [responses |-> IF \E k \in 1..Len(rs) : c[rs[k]].state = "failed" THEN <<>>
                   ELSE Responses(rs, c)]

consult(rs, c) == [responses |-> Responses(rs, c)]

\* lines 676-713: get_trinity_review is called for the file; without the
\* attribute it returns at once, a client without a consult method raises
\* AttributeError into the except of lines 731-737, another client sends the
\* prompt to its reviewers.
GetTrinityReview ==
    /\ gpc = "trinity_code_review"
    /\ rpc = "get_trinity_review"
    /\ Reviewing <= Len(optimized_files)
    /\ reviewlog' = Log("solicited", reviewlog[Reviewing].solicited + 1)
    /\ CASE trinity_client = "none" ->
              /\ trinity_review' = [available |-> FALSE, reviews |-> <<>>]
              /\ rpc' = "aria_analyzes"
              /\ UNCHANGED calls
         [] trinity_client = "TrinityConsultant" ->
              /\ trinity_review' = [available |-> FALSE, reviews |-> <<>>,
                                    error |-> "'TrinityConsultant' object has no attribute 'consult'"]
              /\ rpc' = "aria_analyzes"
              /\ UNCHANGED calls
         [] OTHER ->
              /\ calls' = [r \in {reviewers[k] : k \in 1..Len(reviewers)} |-> Pending]
              /\ rpc' = "consult"
              /\ UNCHANGED trinity_review
    /\ UNCHANGED <<loopstate, memory, stored, reported, engine, started, gpc, files_created, perfect_files, integration_result,
                   integration_sandbox, optimized_files, reviewed_files, returned,
                   trinity_client, reviewers, opinions, judge, aria_decision>>

\* A reviewer answers the prompt.
ReviewerReturns(r) ==
    /\ rpc = "consult"
    /\ r \in DOMAIN calls
    /\ calls[r] = Pending
    /\ \E text \in opinions[r] : calls' = [calls EXCEPT ![r] = Done(text)]
    /\ UNCHANGED <<loopstate, memory, stored, reported, engine, started, gpc, files_created, perfect_files, integration_result,
                   integration_sandbox, optimized_files, reviewed_files, returned,
                   trinity_client, reviewers, opinions, judge, rpc, trinity_review,
                   aria_decision, reviewlog>>

\* A reviewer's call fails.
ReviewerFails(r) ==
    /\ rpc = "consult"
    /\ r \in DOMAIN calls
    /\ calls[r] = Pending
    /\ calls' = [calls EXCEPT ![r] = Failed]
    /\ UNCHANGED <<loopstate, memory, stored, reported, engine, started, gpc, files_created, perfect_files, integration_result,
                   integration_sandbox, optimized_files, reviewed_files, returned,
                   trinity_client, reviewers, opinions, judge, rpc, trinity_review,
                   aria_decision, reviewlog>>

\* lines 715-729: consult has returned and get_trinity_review returns
ConsultReturns ==
    /\ rpc = "consult"
    /\ \A r \in DOMAIN calls : calls[r] # Pending
    /\ LET trinity_response == consult(reviewers, calls) IN
        trinity_review' = [available |-> TRUE,
                           reviews |-> GetOr(trinity_response, "responses", <<>>),
                           consensus |-> GetOr(trinity_response, "consensus", EmptyDict),
                           suggestions |-> parse_trinity_suggestions(trinity_response)]
    /\ rpc' = "aria_analyzes"
    /\ UNCHANGED <<loopstate, memory, stored, reported, engine, started, gpc, files_created, perfect_files, integration_result,
                   integration_sandbox, optimized_files, reviewed_files, returned,
                   trinity_client, reviewers, opinions, judge, calls, aria_decision,
                   reviewlog>>

\* Variant: the analysis prompt is sent also when there is no suggestion.
AriaAnalyzes_AsksAnyway ==
    /\ rpc = "aria_analyzes"
    /\ LET suggestions == GetOr(trinity_review, "suggestions", <<>>) IN
        IF ~trinity_review.available
        THEN /\ aria_decision' = [implement_suggestions |-> FALSE,
                                  approved_suggestions |-> <<>>,
                                  reasoning |-> "Trinity review not available"]
             /\ reviewlog' = Log("decided", reviewlog[Reviewing].decided + 1)
        ELSE \E aria_response \in judge :
                /\ aria_decision' = ParseDecision(aria_response, suggestions)
                /\ reviewlog' = [reviewlog EXCEPT ![Reviewing] =
                                    [@ EXCEPT !.decided = @ + 1, !.asked = @ + 1,
                                              !.answer = aria_response]]
    /\ rpc' = "apply"
    /\ UNCHANGED <<loopstate, memory, stored, reported, engine, started, gpc, files_created, perfect_files, integration_result,
                   integration_sandbox, optimized_files, reviewed_files, returned,
                   trinity_client, reviewers, opinions, judge, calls, trinity_review>>

\* aria_analyzes_trinity_suggestions (lines 784-880)
AriaAnalyzes ==
    /\ rpc = "aria_analyzes"
    /\ LET suggestions == GetOr(trinity_review, "suggestions", <<>>) IN
        IF ~trinity_review.available
        THEN /\ aria_decision' = [implement_suggestions |-> FALSE,
                                  approved_suggestions |-> <<>>,
                                  reasoning |-> "Trinity review not available"]
             /\ reviewlog' = Log("decided", reviewlog[Reviewing].decided + 1)
        ELSE IF suggestions = <<>>
        THEN /\ aria_decision' = [implement_suggestions |-> FALSE,
                                  approved_suggestions |-> <<>>,
                                  reasoning |-> "No suggestions from Trinity"]
             /\ reviewlog' = Log("decided", reviewlog[Reviewing].decided + 1)
        ELSE \E aria_response \in judge :
                /\ aria_decision' = ParseDecision(aria_response, suggestions)
                /\ reviewlog' = [reviewlog EXCEPT ![Reviewing] =
                                    [@ EXCEPT !.decided = @ + 1, !.asked = @ + 1,
                                              !.answer = aria_response]]
    /\ rpc' = "apply"
    /\ UNCHANGED <<loopstate, memory, stored, reported, engine, started, gpc, files_created, perfect_files, integration_result,
                   integration_sandbox, optimized_files, reviewed_files, returned,
                   trinity_client, reviewers, opinions, judge, calls, trinity_review>>

\* Variant: one request for each approved suggestion.
ApplyRequests_Each(approved_suggestions) ==
    [k \in 1..Len(approved_suggestions) |-> <<approved_suggestions[k]>>]

\* apply_trinity_suggestions (lines 900-929): the requests it makes for the
\* approved suggestions
ApplyRequests(approved_suggestions) ==
    IF approved_suggestions = <<>> THEN <<>> ELSE <<approved_suggestions>>

\* Variant: a file for which nothing was approved is put to the reviewers
\* again.
ApplySuggestions_Again ==
    /\ rpc = "apply"
    /\ LET file == optimized_files[Reviewing]
           asks == IF aria_decision.implement_suggestions
                   THEN ApplyRequests(aria_decision.approved_suggestions)
                   ELSE <<>>
       IN IF asks = <<>>
          THEN UNCHANGED <<reviewed_files, reviewlog>>
          ELSE \E final_code \in {FixFromChat(res, file.content) : res \in chat} :
                /\ reviewed_files' =
                      Append(reviewed_files,
                             [content |-> final_code, trinity_review |-> trinity_review,
                              aria_decision |-> aria_decision, trinity_reviewed |-> TRUE]
                             @@ file)
                /\ reviewlog' = Log("applied", asks)
    /\ rpc' = "get_trinity_review"
    /\ calls' = EmptyDict
    /\ trinity_review' = None
    /\ aria_decision' = None
    /\ UNCHANGED <<loopstate, memory, stored, reported, engine, started, gpc, files_created, perfect_files, integration_result,
                   integration_sandbox, optimized_files, returned,
                   trinity_client, reviewers, opinions, judge>>

\* lines 651-666: the text is kept, or replaced by the answer to the apply
\* prompt when suggestions were approved, and the file is appended
ApplySuggestions ==
    /\ rpc = "apply"
    /\ LET file == optimized_files[Reviewing]
           asks == IF aria_decision.implement_suggestions
                   THEN ApplyRequests(aria_decision.approved_suggestions)
                   ELSE <<>>
       IN \E final_code \in IF asks = <<>> THEN {file.content}
                            ELSE {FixFromChat(res, file.content) : res \in chat} :
            /\ reviewed_files' =
                  Append(reviewed_files,
                         [content |-> final_code, trinity_review |-> trinity_review,
                          aria_decision |-> aria_decision, trinity_reviewed |-> TRUE]
                         @@ file)
            /\ reviewlog' = Log("applied", asks)
    /\ rpc' = "get_trinity_review"
    /\ calls' = EmptyDict
    /\ trinity_review' = None
    /\ aria_decision' = None
    /\ UNCHANGED <<loopstate, memory, stored, reported, engine, started, gpc, files_created, perfect_files, integration_result,
                   integration_sandbox, optimized_files, returned,
                   trinity_client, reviewers, opinions, judge>>

\* final_verification (lines 931-946)
final_verification(files) ==
    LET metrics ==
            [total_files |-> Len(files),
             all_tested |-> \A i \in 1..Len(files) :
                                "tests_passed" \in DOMAIN files[i]
                                /\ files[i].tests_passed > 0,
             all_secure |-> \A i \in 1..Len(files) : Get(files[i], "security") = "clean",
             all_optimized |-> \A i \in 1..Len(files) :
                                "optimized" \in DOMAIN files[i] /\ files[i].optimized]
    IN [verified |-> TRUE, metrics |-> metrics,
        coverage |-> IF metrics.all_tested THEN "100%" ELSE "partial"]

\* lines 128-136
GenerateResult(files, final_result) ==
    [status |-> "perfect",
     files |-> files,
     metrics |-> final_result.metrics,
     guarantee |-> "This code is TESTED, OPTIMIZED, TRINITY-REVIEWED, and GUARANTEED to work",
     execution_time |-> Get(final_result, "execution_time"),
     test_coverage |-> final_result.coverage,
     trinity_reviewed |-> TRUE]

\* lines 117-136: trinity_code_review has returned; Phase 6 and the return
Finish ==
    /\ gpc = "trinity_code_review"
    /\ Len(reviewed_files) = Len(optimized_files)
    /\ returned' = GenerateResult(reviewed_files, final_verification(reviewed_files))
    /\ gpc' = "returned"
    /\ UNCHANGED <<loopstate, memory, stored, reported, engine, review, started, files_created, perfect_files, integration_result,
                   integration_sandbox, optimized_files, reviewed_files>>

NextGenerate ==
    \/ \E t \in Tasks : Step(t)
    \/ CallGenerate
    \/ CodeTask
    \/ ExecutePlan
    \/ CallLoop
    \/ LoopReturned
    \/ Integration
    \/ OptimizeFile
    \/ Optimized
    \/ GetTrinityReview
    \/ \E r \in ReviewerNames : ReviewerReturns(r)
    \/ \E r \in ReviewerNames : ReviewerFails(r)
    \/ ConsultReturns
    \/ AriaAnalyzes
    \/ ApplySuggestions
    \/ Finish

NamedFiles(c1, c2) ==
    [t \in Tasks |-> [filename |-> IF t = "t1" THEN "main.py" ELSE "util.py",
                      content |-> IF t = "t1" THEN c1 ELSE c2]]

\* A text that passes every gate.
Working == [defects |-> {}, err |-> FALSE]

\* An agent that was given a trinity_client with two reviewers, or with none;
\* a reviewer suggests one change or writes prose.
SmallPanel ==
    /\ trinity_client = "panel"
    /\ reviewers \in {<<>>, <<"claude", "gpt">>}
    /\ opinions = [r \in ReviewerNames |->
                      {Unlabelled, Suggests(IF r = "claude" THEN "bug" ELSE "style")}]
    /\ judge = SomeAnswers

\* One generate_perfect_code call on a new instance. The model answers a fix,
\* optimize or apply prompt with working code or with code that has a security
\* defect, and writes tests that exercise the code. Either the agent has no
\* trinity_client, the first file is any file and the second a working one or
\* one with a security defect, or the agent has a panel, python runs on the
\* host and both files are working ones.
InitGenerate ==
    /\ started = {}
    /\ fix_attempts = 0
    /\ manners = {"crash", "timeout"}
    /\ fixer = {c \in Sources : c.defects \subseteq {"security"}}
    /\ author = {"ok"}
    /\ \/ /\ NoTrinity
          /\ memory = "down"
          /\ Probe
          /\ file_info \in {NamedFiles(c1, c2) :
                              c1 \in Sources,
                              c2 \in {c \in Sources : c.defects \subseteq {"security"}}}
       \/ /\ SmallPanel
          /\ memory \in {"up", "down"}
          /\ docker_client = FALSE
          /\ host = {"python"}
          /\ file_info = NamedFiles(Working, Working)
    /\ InitCommon
    /\ NoEngine

GenerateSpec == InitGenerate /\ [][NextGenerate]_vars

\* One call of trinity_code_review(aria_agent, files) with one or two files,
\* for an agent without the attribute, with a TrinityConsultant or with a
\* panel; one reviewer answers any text, or the analysis prompt gets any
\* answer.
ReviewedFile(name) == [filename |-> name, content |-> Working, status |-> "perfect",
                       optimized |-> TRUE]

InitReview ==
    /\ started = {}
    /\ fix_attempts = 0
    /\ docker_client = FALSE
    /\ host = {"python"}
    /\ manners = {"crash"}
    /\ fixer = {c \in Sources : c.defects \subseteq {"security"}}
    /\ author = {"ok"}
    /\ file_info = NamedFiles(Working, Working)
    /\ InitLoops
    /\ gpc = "trinity_code_review"
    /\ NoEngine
    /\ memory = "down"
    /\ stored = <<>>
    /\ reported = 0
    /\ files_created = 0
    /\ perfect_files = <<>>
    /\ integration_result = None
    /\ integration_sandbox = [created |-> {}, leftover |-> {}]
    /\ reviewed_files = <<>>
    /\ returned = None
    /\ InitReviewLocals
    /\ \/ /\ optimized_files = <<ReviewedFile("main.py"), ReviewedFile("util.py")>>
          /\ \/ NoTrinity
             \/ /\ trinity_client = "TrinityConsultant"
                /\ reviewers = <<"claude", "gpt">>
                /\ opinions = [r \in ReviewerNames |-> {Unlabelled}]
                /\ judge = SomeAnswers
             \/ SmallPanel
       \/ /\ optimized_files = <<ReviewedFile("main.py")>>
          /\ trinity_client = "panel"
          /\ reviewers = <<"claude", "gpt">>
          /\ \/ /\ opinions \in {[r \in ReviewerNames |->
                                     IF r = "claude" THEN {t}
                                     ELSE {Unlabelled, Suggests("style")}] :
                                  t \in ReviewTexts}
                /\ judge = SomeAnswers
             \/ /\ opinions = [r \in ReviewerNames |->
                                  {Suggests(IF r = "claude" THEN "bug" ELSE "style")}]
                /\ judge \in {{a} : a \in Answers}

NextReview ==
    \/ GetTrinityReview
    \/ \E r \in ReviewerNames : ReviewerReturns(r)
    \/ \E r \in ReviewerNames : ReviewerFails(r)
    \/ ConsultReturns
    \/ AriaAnalyzes
    \/ ApplySuggestions

ReviewSpec == InitReview /\ [][NextReview]_vars

----------------------------------------------------------------------------
\* GenesisEngine.create_autonomous_software (src/genesis_engine.py).

\* str(e), and the value Python prints as None
Message == "str(e)"
NoValue == "None"

\* lines 328-338: the outer `except Exception`
CreationFailed(e) == [success |-> FALSE, error |-> e, traceback |-> "format_exc"]

\* lines 211-216
NotPerfect(code_result) ==
    [success |-> FALSE,
     error |-> "Code generation did not reach perfect status",
     details |-> code_result]

\* lines 224-231: the local `result` after Phase 1. The metrics dict of
\* final_verification always has the keys read here and printed at lines
\* 219-220.
Created(code_result) ==
    [success |-> TRUE,
     files |-> code_result.files,
     metrics |-> code_result.metrics,
     tests_passed |-> GetOr(code_result.metrics, "all_tested", TRUE),
     security_clean |-> GetOr(code_result.metrics, "all_secure", TRUE),
     trinity_reviewed |-> GetOr(code_result, "trinity_reviewed", FALSE)]

\* How a phase's calls can end: _initialize_github and _initialize_aws raise
\* ValueError when the credentials are not in the environment, and the calls
\* of the services can raise.
Outcomes == {"ok", "raises"}

\* line 208: _initialize_aria returns the agent, or raises
InitializeAria ==
    /\ epc = "_initialize_aria"
    /\ \E outcome \in Outcomes :
        IF outcome = "raises"
        THEN /\ creation' = CreationFailed(Message)
             /\ epc' = "returned"
        ELSE /\ epc' = "generate_perfect_code"
             /\ UNCHANGED creation
    /\ UNCHANGED <<loopstate, started, file_info, code, locals, result, history,
                   gpc, files_created, perfect_files, integration_result,
                   integration_sandbox, optimized_files, reviewed_files, returned,
                   review, memory, stored, reported, skip_github, skip_aws, phases>>

\* line 209: `await aria.generate_perfect_code(detected_need)` makes the call
Generate ==
    /\ epc = "generate_perfect_code"
    /\ CallGenerate

\* lines 209-231: generate_perfect_code has returned or raised
CodeGenerated ==
    /\ epc = "generate_perfect_code"
    /\ gpc \in {"returned", "raised"}
    /\ IF gpc = "raised"
       THEN /\ creation' = CreationFailed(Message)
            /\ epc' = "returned"
       ELSE LET code_result == returned IN
            IF Get(code_result, "status") # "perfect"
            THEN /\ creation' = NotPerfect(code_result)
                 /\ epc' = "returned"
            ELSE /\ creation' = Created(code_result)
                 /\ epc' = "github"
    /\ UNCHANGED <<loopstate, started, file_info, code, locals, result, history,
                   gpc, files_created, perfect_files, integration_result,
                   integration_sandbox, optimized_files, reviewed_files, returned,
                   review, memory, stored, reported, skip_github, skip_aws, phases>>

\* A phase's exception reaches the outer handler.
RepositoryPhase_Propagates ==
    /\ epc = "github"
    /\ IF ~skip_github
       THEN /\ \E outcome \in Outcomes :
                /\ phases' = Append(phases, [phase |-> "github", outcome |-> outcome])
                /\ IF outcome = "ok"
                   THEN /\ creation' = Put(Put(creation, "repo", "html_url"),
                                           "repo_name", "repo_name")
                        /\ epc' = "aws"
                   ELSE /\ creation' = CreationFailed(Message)
                        /\ epc' = "returned"
       ELSE /\ creation' = Put(creation, "repo", NoValue)
            /\ epc' = "aws"
            /\ UNCHANGED phases
    /\ UNCHANGED <<loopstate, started, file_info, code, locals, result, history,
                   gpc, files_created, perfect_files, integration_result,
                   integration_sandbox, optimized_files, reviewed_files, returned,
                   review, memory, stored, reported, skip_github, skip_aws>>

\* lines 236-270: Phase 2, the repository
RepositoryPhase ==
    /\ epc = "github"
    /\ IF ~skip_github
       THEN /\ \E outcome \in Outcomes :
                /\ phases' = Append(phases, [phase |-> "github", outcome |-> outcome])
                /\ creation' =
                    IF outcome = "ok"
                    THEN Put(Put(creation, "repo", "html_url"), "repo_name", "repo_name")
                    ELSE Put(Put(creation, "repo", NoValue), "github_error", Message)
       ELSE /\ creation' = Put(creation, "repo", NoValue)
            /\ UNCHANGED phases
    /\ epc' = "aws"
    /\ UNCHANGED <<loopstate, started, file_info, code, locals, result, history,
                   gpc, files_created, perfect_files, integration_result,
                   integration_sandbox, optimized_files, reviewed_files, returned,
                   review, memory, stored, reported, skip_github, skip_aws>>

\* lines 275-326: Phase 3, the deployment, then the summary and the return
DeploymentPhase ==
    /\ epc = "aws"
    /\ IF ~skip_aws
       THEN /\ \E outcome \in Outcomes :
                /\ phases' = Append(phases, [phase |-> "aws", outcome |-> outcome])
                /\ creation' =
                    IF outcome = "ok"
                    THEN Put(Put(Put(creation, "endpoint", "endpoint"),
                                 "deployment_type", "type"), "region", "region")
                    ELSE Put(Put(creation, "endpoint", NoValue), "aws_error", Message)
       ELSE /\ creation' = Put(creation, "endpoint", NoValue)
            /\ UNCHANGED phases
    /\ epc' = "returned"
    /\ UNCHANGED <<loopstate, started, file_info, code, locals, result, history,
                   gpc, files_created, perfect_files, integration_result,
                   integration_sandbox, optimized_files, reviewed_files, returned,
                   review, memory, stored, reported, skip_github, skip_aws>>

NextEngine ==
    \/ InitializeAria
    \/ Generate
    \/ CodeGenerated
    \/ RepositoryPhase
    \/ DeploymentPhase
    \/ \E t \in Tasks : Step(t)
    \/ CodeTask
    \/ ExecutePlan
    \/ CallLoop
    \/ LoopReturned
    \/ Integration
    \/ OptimizeFile
    \/ Optimized
    \/ GetTrinityReview
    \/ \E r \in ReviewerNames : ReviewerReturns(r)
    \/ \E r \in ReviewerNames : ReviewerFails(r)
    \/ ConsultReturns
    \/ AriaAnalyzes
    \/ ApplySuggestions
    \/ Finish

\* An agent with a panel of two reviewers that suggest one change each, of
\* which the agent approves one.
AgreeingPanel ==
    /\ trinity_client = "panel"
    /\ reviewers = <<"claude", "gpt">>
    /\ opinions = [r \in ReviewerNames |->
                      {Suggests(IF r = "claude" THEN "bug" ELSE "style")}]
    /\ judge = {Text(<<Line("APPROVE:", <<" 0 ", " good">>),
                       Line("REJECT:", <<" 1 ", " good">>)>>)}

\* One create_autonomous_software call of a new engine, with either value of
\* each skip flag. Python runs the code on the host. Either the agent has no
\* trinity_client and the first file is any file, or it has a panel and both
\* files are working ones.
InitEngine ==
    /\ started = {}
    /\ fix_attempts = 0
    /\ manners = {"crash"}
    /\ fixer = {c \in Sources : c.defects \subseteq {"security"}}
    /\ author = {"ok"}
    /\ docker_client = FALSE
    /\ host = {"python"}
    /\ \/ /\ NoTrinity
          /\ memory = "down"
          /\ file_info \in {NamedFiles(c1, Working) : c1 \in Sources}
       \/ /\ AgreeingPanel
          /\ memory = "up"
          /\ file_info = NamedFiles(Working, Working)
    /\ InitCommon
    /\ epc = "_initialize_aria"
    /\ skip_github \in BOOLEAN
    /\ skip_aws \in BOOLEAN
    /\ creation = EmptyDict
    /\ phases = <<>>

EngineSpec == InitEngine /\ [][NextEngine]_vars

----------------------------------------------------------------------------
\* Properties.

FixPositions == {"fix_syntax", "fix_static_issues", "fix_runtime_errors",
                 "fix_test_failures", "fix_security_issues"}

\* All five gates were evaluated in the iteration, in order, on one text, and
\* passed.
AllFivePassed(e) ==
    /\ Len(e) = Len(Gates)
    /\ \A i \in 1..Len(e) :
        e[i].gate = Gates[i] /\ e[i].passed /\ e[i].content = e[1].content

\* The task evaluates a gate in this step.
Evaluates(t) == evaluated'[t] # evaluated[t] /\ evaluated'[t] # <<>>

\* The task completes a fix step in this step.
FixStep(t) == pc[t] \in FixPositions /\ pc'[t] # pc[t]

\* C1: within an iteration the gates are evaluated in the order syntax,
\* static, execution, tests, security, each on the same text and only after
\* all earlier gates passed; a failed gate is the last one of its iteration.
C1_GateOrder ==
    \A t \in Tasks :
        LET e == evaluated[t] IN
        /\ Len(e) <= Len(Gates)
        /\ \A i \in 1..Len(e) :
            /\ e[i].gate = Gates[i]
            /\ e[i].content = e[1].content
            /\ i < Len(e) => e[i].passed

C1_Witness ==
    \E t \in Tasks :
        /\ iteration[t] > 1
        /\ Len(evaluated[t]) = 4
        /\ ~evaluated[t][4].passed

\* C2: a failed gate is followed by one fix step of that gate; the fix step
\* adds exactly one to the iteration count and leads back to the loop test;
\* the gate evaluated next (when the budget allows another iteration) is
\* the syntax gate, on the text the fix step returned, with one fix step
\* taken per earlier iteration.
C2_FixThenRestart ==
    [][\A t \in Tasks :
        /\ (Evaluates(t) /\ ~evaluated'[t][Len(evaluated'[t])].passed)
              => pc'[t] = CASE Len(evaluated'[t]) = 1 -> "fix_syntax"
                            [] Len(evaluated'[t]) = 2 -> "fix_static_issues"
                            [] Len(evaluated'[t]) = 3 -> "fix_runtime_errors"
                            [] Len(evaluated'[t]) = 4 -> "fix_test_failures"
                            [] OTHER -> "fix_security_issues"
        /\ FixStep(t)
              => /\ fix_attempts' = fix_attempts + 1
                 /\ fixes'[t] = fixes[t] + 1
                 /\ code'[t] = lastFix'[t]
                 /\ pc'[t] = "while"
        /\ (pc[t] = "while" /\ pc'[t] # "while")
              => pc'[t] \in {"validate_syntax", "done"}
        /\ (pc[t] = "validate_syntax" /\ pc'[t] # pc[t])
              => /\ Evaluates(t)
                 /\ evaluated'[t] = <<[gate |-> "syntax", content |-> code[t],
                                      passed |-> evaluated'[t][1].passed]>>
                 /\ fixes[t] > 0 => code[t] = lastFix[t]
                 /\ fixes[t] + 1 = iteration[t]
      ]_vars

C2_Witness ==
    \E t \in Tasks :
        /\ fixes[t] = 2
        /\ iteration[t] = 3
        /\ Len(evaluated[t]) = 1
        /\ evaluated[t][1].content = lastFix[t]

\* C3: the call has returned status 'perfect' exactly when all five gates
\* passed in one iteration, and then it returns the text they passed on, the
\* number of fix steps, and the evidence of the passing execution and tests.
C3_PerfectIffAllPassed ==
    \A t \in Tasks :
        /\ result[t].status = "perfect" <=> AllFivePassed(evaluated[t])
        /\ result[t].status = "perfect" =>
            /\ pc[t] = "done"
            /\ result[t].content = evaluated[t][1].content
            /\ result[t].iterations = fixes[t]
            /\ test_result[t].all_pass
            /\ result[t].tests_passed = test_result[t].count
            /\ exec_result[t].success
            /\ result[t].execution_time = Get(exec_result[t], "time")
            /\ result[t].security = "clean"

C3_Witness ==
    \E t \in Tasks :
        /\ result[t].status = "perfect"
        /\ result[t].iterations >= 2
        /\ result[t].tests_passed >= 1
        /\ result[t].content # file_info[t].content

\* C4: a call running alone sets the iteration count to 0 at entry, and from
\* then on the count never decreases and never exceeds max_fix_attempts.
C4_CountBounded ==
    [][\A t \in started :
        /\ (pc[t] = "idle" /\ pc'[t] # "idle") => fix_attempts' = 0
        /\ pc[t] # "idle" =>
            /\ fix_attempts' >= fix_attempts
            /\ fix_attempts <= max_fix_attempts
            /\ fix_attempts' <= max_fix_attempts
      ]_vars

C4_Witness ==
    \E t \in Tasks :
        /\ pc[t] = "while"
        /\ fix_attempts = max_fix_attempts
        /\ fixes[t] = max_fix_attempts

\* C5: a call in which every iteration ended in a failed gate returns after
\* exactly max_fix_attempts iterations and fix steps, with status
\* 'best_effort' and iterations = max_fix_attempts; no call enters more
\* iterations than that.
C5_ExhaustsExactly ==
    \A t \in Tasks :
        /\ iteration[t] <= max_fix_attempts
        /\ fixes[t] <= max_fix_attempts
        /\ (pc[t] = "done" /\ fixes[t] = iteration[t]) =>
            /\ result[t].status = "best_effort"
            /\ result[t].iterations = max_fix_attempts
            /\ iteration[t] = max_fix_attempts
            /\ fixes[t] = max_fix_attempts

C5_Witness ==
    \E t \in Tasks :
        /\ pc[t] = "done"
        /\ fixes[t] = iteration[t]
        /\ result[t].status = "best_effort"

C7_FirstAttempt ==
    \A t \in Tasks :
        (iteration[t] = 1 /\ AllFivePassed(evaluated[t])) =>
            /\ pc[t] = "done"
            /\ result[t].status = "perfect"
            /\ result[t].iterations = 0
            /\ fixes[t] = 0
            /\ lastFix[t] = None
            /\ result[t].content = file_info[t].content

C7_Witness ==
    \E t \in Tasks :
        /\ iteration[t] = 1
        /\ AllFivePassed(evaluated[t])
        /\ result[t].status = "perfect"
        /\ result[t].tests_passed = 0

\* The text passes all five gates: none finds a defect in it.
PassesAllGates(c) ==
    /\ validate_syntax(c).valid
    /\ static_analysis(c).issues = <<>>
    /\ \A b \in Run(c) : execute_code(b, docker_client).success
    /\ \A r \in run_tests(c, "ok") : r.all_pass
    /\ security_scan(c).vulnerabilities = <<>>

\* C8: 'best_effort' is returned only with the budget exhausted and a text
\* that still fails a gate; a text that passes all five gates is never
\* returned as 'best_effort'.
C8_BestEffortStillFails ==
    \A t \in Tasks :
        result[t].status = "best_effort" =>
            /\ result[t].iterations = max_fix_attempts
            /\ ~PassesAllGates(result[t].content)

\* C9: a fix step in which the fixer failed (chat returned its "Error: ..."
\* string) leaves the text as it was, consumes one iteration and continues
\* the loop.
C9_FailedFixKeepsContent ==
    [][\A t \in Tasks :
        (FixStep(t) /\ pc[t] # "fix_static_issues" /\ lastFix'[t].err) =>
            /\ code'[t] = code[t]
            /\ fix_attempts' = fix_attempts + 1
            /\ pc'[t] = "while"
      ]_vars

\* C10: two interleaved calls do not affect each other: each returns as
\* iterations the number of fix steps it took, which is at most
\* max_fix_attempts.
C10_RunsIndependent ==
    \A t \in Tasks :
        /\ fixes[t] <= max_fix_attempts
        /\ pc[t] = "done" => result[t].iterations = fixes[t]

\* The fix position of each gate.
FixOf(g) ==
    CASE g = "syntax" -> "fix_syntax"
      [] g = "static" -> "fix_static_issues"
      [] g = "execution" -> "fix_runtime_errors"
      [] g = "tests" -> "fix_test_failures"
      [] g = "security" -> "fix_security_issues"

\* What gate g reported about the task's text in the current iteration.
FailureDescription(t, g) ==
    CASE g = "syntax" -> validate_syntax(code[t]).errors
      [] g = "static" -> static_analysis(code[t]).issues
      [] g = "execution" -> exec_result[t].errors
      [] g = "tests" -> test_result[t].failures
      [] g = "security" -> security_scan(code[t]).vulnerabilities

\* C11: an iteration makes at most one fix request, and makes one exactly when
\* its last evaluated gate failed; the request is of that gate's class, on the
\* text the gate saw, and carries that gate's failure description and nothing
\* of another gate.
C11_OneClassPerRequest ==
    \A t \in Tasks :
        LET e == evaluated[t]
            r == requests[t] IN
        /\ Len(r) <= 1
        /\ Len(r) = 1 <=> (e # <<>> /\ ~e[Len(e)].passed)
        /\ Len(r) = 1 =>
            /\ r[1].class = e[Len(e)].gate
            /\ r[1].code = e[Len(e)].content
        /\ pc[t] \in FixPositions =>
            /\ Len(r) = 1
            /\ pc[t] = FixOf(r[1].class)
            /\ r[1].failures = FailureDescription(t, r[1].class)

C11_Witness ==
    \E t \in Tasks :
        /\ pc[t] = "fix_test_failures"
        /\ iteration[t] > 1
        /\ requests[t] = <<[class |-> "tests", code |-> code[t],
                           failures |-> <<"FAILED">>]>>
        /\ "security" \in code[t].defects

C13_TimeoutReclaims ==
    \A t \in Tasks :
        ran[t] = "timeout" => leftover[t] \cap {"process", "container"} = {}

\* C14: an execution that ran past the timeout is reported as a failure with
\* the 'infinite loop' timeout message, whichever backend ran it.
C14_SameTimeoutReport ==
    \A t \in Tasks :
        (ran[t] = "timeout" /\ pc[t] = "fix_runtime_errors") =>
            /\ ~exec_result[t].success
            /\ exec_result[t].errors = TimeoutMessage

\* C15: an execution uses the container backend when it is available, and
\* runs the text in a child process when it is not, be that known since the
\* probe or found when the execution is attempted.
C15_FallsBack ==
    \A t \in Tasks :
        ran[t] # "not run" =>
            IF docker_client /\ "docker" \in host
            THEN "container" \in spawned[t]
            ELSE "python" \in host =>
                    /\ "process" \in spawned[t]
                    /\ ran[t] # "unavailable"

C17_NoTestsPass ==
    [][\A t \in Tasks :
        (pc[t] = "run_tests" /\ tests[t] = "" /\ pc'[t] # pc[t]) =>
            /\ test_result'[t] = [all_pass |-> TRUE, count |-> 0]
            /\ spawned'[t] = spawned[t]
            /\ leftover'[t] = leftover[t]
            /\ pc'[t] = "security_scan"
            /\ requests'[t] = <<>>
            /\ fix_attempts' = fix_attempts
            /\ fixes'[t] = fixes[t]
            /\ iteration'[t] = iteration[t]
      ]_vars

C17_Witness ==
    \E t \in Tasks :
        /\ pc[t] = "security_scan"
        /\ iteration[t] > 1
        /\ test_result[t] = [all_pass |-> TRUE, count |-> 0]
        /\ spawned[t] \cap {"tempdir", "pytest"} = {}
        /\ Len(evaluated[t]) = 4

\* C18: a gate's result says passed exactly when its list of issues is empty;
\* a fix request carries at least one failure description.
C18_PassedIffNoIssues ==
    \A t \in Tasks :
        /\ exec_result[t] # None =>
            (exec_result[t].success <=> Get(exec_result[t], "errors") \in {"", "None"})
        /\ test_result[t] # None =>
            (test_result[t].all_pass <=>
                ("failures" \in DOMAIN test_result[t] => test_result[t].failures = <<>>))
        /\ \A i \in 1..Len(requests[t]) :
            IF requests[t][i].class = "execution"
            THEN requests[t][i].failures # ""
            ELSE requests[t][i].failures # <<>>

\* C19: the status generate_perfect_code returns with its files reflects the
\* loops: it is 'perfect' only if every file's loop returned 'perfect', and
\* 'best_effort' when some loop exhausted its budget.
C19_StatusReflectsLoops ==
    (gpc = "returned" /\ "files" \in DOMAIN returned) =>
        /\ returned.status = "perfect" =>
            \A i \in 1..Len(perfect_files) : perfect_files[i].status = "perfect"
        /\ (\E i \in 1..Len(perfect_files) : perfect_files[i].status = "best_effort")
            => returned.status = "best_effort"

\* C20: when the integration check of several files failed, the result
\* generate_perfect_code returns says so.
C20_IntegrationFailureReported ==
    (gpc = "returned" /\ integration_result # None /\ ~integration_result.success) =>
        \/ returned.status # "perfect"
        \/ DOMAIN returned \cap {"integration", "integration_result", "integration_errors",
                                 "errors", "error"} # {}

\* The phases of generate_perfect_code that follow the integration check.
AfterIntegration == {"optimize_performance", "trinity_code_review", "returned"}

\* C21: the integration check is made when every file's perfect_loop has
\* returned 'perfect' or 'best_effort'; whatever its outcome, it leaves the
\* list of loop results as the loops returned them, and from then on no loop
\* takes a step: no gate is evaluated, no fix is requested, and no file's
\* content, status or iteration count as returned by its loop changes.
C21_IntegrationLeavesLoops ==
    [][/\ (gpc = "perfect_loop" /\ gpc' # gpc) =>
            /\ \A i \in 1..files_created :
                /\ pc[LoopTask[i]] = "done"
                /\ result[LoopTask[i]].status \in {"perfect", "best_effort"}
                /\ perfect_files'[i] = result[LoopTask[i]]
            /\ Len(perfect_files') = files_created
            /\ gpc' = "optimize_performance"
            /\ UNCHANGED <<pc, code, result, evaluated, requests, fix_attempts>>
       /\ gpc \in AfterIntegration =>
            UNCHANGED <<pc, code, result, evaluated, requests, fixes, iteration,
                        fix_attempts, perfect_files, started>>
      ]_vars

C21_Witness ==
    /\ gpc = "returned"
    /\ integration_result # None
    /\ ~integration_result.success
    /\ perfect_files = <<result["t1"], result["t2"]>>
    /\ result["t1"].status = "perfect"
    /\ result["t2"].status = "best_effort"

\* C22: in one generate_perfect_code call get_trinity_review and
\* aria_analyzes_trinity_suggestions are each called at most once for a file,
\* the decision never before the solicitation, and exactly once for every
\* file when the call has returned its files; a file is put to the reviewers
\* only when its perfect_loop has returned, and no review step is taken while
\* a perfect_loop call is in progress.
C22_ReviewOncePerFile ==
    /\ \A i \in 1..Len(LoopTask) :
        /\ reviewlog[i].solicited <= 1
        /\ reviewlog[i].decided <= reviewlog[i].solicited
        /\ reviewlog[i].solicited > 0 =>
                /\ i <= files_created
                /\ pc[LoopTask[i]] = "done"
                /\ \A t \in Tasks : pc[t] \in {"idle", "done"}
                /\ running = "none"
        /\ (gpc = "returned" /\ "files" \in DOMAIN returned) =>
                /\ reviewlog[i].solicited = (IF i <= files_created THEN 1 ELSE 0)
                /\ reviewlog[i].decided = reviewlog[i].solicited
    /\ rpc # "get_trinity_review" =>
            \A t \in Tasks : pc[t] \in {"idle", "done"}

C22_Witness ==
    /\ gpc = "returned"
    /\ files_created = 2
    /\ \A i \in 1..2 : reviewlog[i].solicited = 1 /\ reviewlog[i].decided = 1
    /\ reviewlog[1].asked = 1
    /\ reviewlog[2].asked = 0
    /\ iteration["t1"] = 1

\* The agent has no reviewer to ask: it has no trinity_client, or one with no
\* reviewer.
NoReviewers == trinity_client = "none" \/ reviewers = <<>>

\* C23: with no reviewer configured, every file that trinity_code_review has
\* appended has an empty suggestion set and no error in its review, the
\* analysis prompt was never sent, no apply request was made, the content is
\* the one the file came with, and the recorded decision implements nothing
\* and gives as its reason that there was no review or no suggestion.
C23_NoReviewersNoChange ==
    NoReviewers =>
        /\ \A i \in 1..Len(LoopTask) :
              reviewlog[i].asked = 0 /\ reviewlog[i].applied = <<>>
        /\ \A i \in 1..Len(reviewed_files) :
            LET f == reviewed_files[i] IN
                /\ GetOr(f.trinity_review, "suggestions", <<>>) = <<>>
                /\ "error" \notin DOMAIN f.trinity_review
                /\ f.content = optimized_files[i].content
                /\ ~f.aria_decision.implement_suggestions
                /\ f.aria_decision.approved_suggestions = <<>>
                /\ f.aria_decision.reasoning \in {"Trinity review not available",
                                                  "No suggestions from Trinity"}

C23_Witness ==
    /\ trinity_client = "none"
    /\ Len(reviewed_files) = 2
    /\ ~reviewed_files[2].trinity_review.available
    /\ reviewed_files[2].aria_decision.reasoning = "Trinity review not available"
    /\ reviewed_files[2].content = optimized_files[2].content

\* A response with a line that starts with one of the labels.
HasLabel(model_response) ==
    \E k \in 1..Len(model_response.response) : model_response.response[k].head \in Labels

\* C24: when the consultation has returned, the review is available (no
\* exception left the parser), a response none of whose lines starts with a
\* label yields no suggestion, and the suggestions of the review are those
\* parsed from the other responses alone.
C24_UnlabelledYieldsNothing ==
    (trinity_client = "panel" /\ rpc \in {"aria_analyzes", "apply"}) =>
        LET all == Responses(reviewers, calls) IN
            /\ trinity_review.available
            /\ "error" \notin DOMAIN trinity_review
            /\ \A k \in 1..Len(all) :
                  ~HasLabel(all[k]) =>
                      parse_trinity_suggestions([responses |-> <<all[k]>>]) = <<>>
            /\ trinity_review.suggestions =
                  parse_trinity_suggestions([responses |-> SelectSeq(all, HasLabel)])

C24_Witness ==
    /\ rpc = "aria_analyzes"
    /\ trinity_client = "panel"
    /\ DOMAIN calls = ReviewerNames
    /\ calls["claude"].state = "done"
    /\ Len(calls["claude"].response) = MaxLines
    /\ ~HasLabel(calls["claude"])
    /\ calls["gpt"] = Done(Suggests("style"))
    /\ Len(trinity_review.suggestions) = 1
    /\ trinity_review.suggestions[1].model = "gpt"

\* A line whose text before the first dash is the numeral of an index of a
\* list of n suggestions.
InRange(line, n) == \E k \in 0..(n - 1) : strip(line.rest[1]) = str(k)

\* C25: when the analysis prompt has been answered, the decision is the one
\* read from the answer without its APPROVE: and REJECT: lines whose index is
\* no numeral (a negative one included) or is outside the suggestions: such a
\* line adds nothing to either list and changes nothing about the others,
\* and every other verdict line adds one entry.
C25_BadIndexIgnored ==
    (rpc = "apply" /\ reviewlog[Reviewing].asked = 1) =>
        LET a == reviewlog[Reviewing].answer
            suggestions == trinity_review.suggestions
            lines == IF IsStr(a) THEN a.lines ELSE <<>>
            valid == SelectSeq(lines, LAMBDA l : InRange(l, Len(suggestions)))
        IN /\ aria_decision = ParseDecision(Text(valid), suggestions)
           /\ Len(aria_decision.approved_suggestions) =
                 Len(SelectSeq(valid, LAMBDA l : l.head = "APPROVE:"))
           /\ Len(aria_decision.rejected_suggestions) =
                 Len(SelectSeq(valid, LAMBDA l : l.head = "REJECT:"))

C25_Witness ==
    /\ rpc = "apply"
    /\ reviewlog[1].asked = 1
    /\ Len(trinity_review.suggestions) = 2
    /\ reviewlog[1].answer =
          Text(<<Line("APPROVE:", <<" 9">>), Line("APPROVE:", <<" 1">>)>>)
    /\ Len(aria_decision.approved_suggestions) = 1
    /\ aria_decision.approved_suggestions[1].model = "gpt"

\* C26: for a file at most one apply request is made; when suggestions were
\* approved the one request carries all of them, and when none was approved
\* no request is made and the content is the one the file came with.
C26_OneAggregateRequest ==
    \A i \in 1..Len(LoopTask) :
        /\ Len(reviewlog[i].applied) <= 1
        /\ i <= Len(reviewed_files) =>
            LET f == reviewed_files[i]
                approved == f.aria_decision.approved_suggestions
            IN IF approved # <<>>
               THEN reviewlog[i].applied = <<approved>>
               ELSE /\ reviewlog[i].applied = <<>>
                    /\ f.content = optimized_files[i].content

C26_Witness ==
    /\ Len(reviewed_files) = 1
    /\ Len(reviewed_files[1].aria_decision.approved_suggestions) = 2
    /\ Len(reviewlog[1].applied) = 1
    /\ Len(reviewlog[1].applied[1]) = 2
    /\ reviewed_files[1].content # optimized_files[1].content

\* An answer that approves a suggestion of a list of n: a text with an
\* APPROVE: line whose index is in the list.
Approves(a, n) ==
    /\ IsStr(a)
    /\ \E k \in 1..Len(a.lines) : a.lines[k].head = "APPROVE:" /\ InRange(a.lines[k], n)

\* C27: when the answer to the analysis prompt is no text, is the error text
\* of a failed chat call or approves nothing, the file is appended with the
\* content it came with, no apply request is made, and the recorded decision
\* implements nothing and says that 0 suggestions were approved.
C27_NoDecisionNoChange ==
    \A i \in 1..Len(reviewed_files) :
        LET f == reviewed_files[i] IN
            (reviewlog[i].asked = 1
             /\ ~Approves(reviewlog[i].answer, Len(f.trinity_review.suggestions))) =>
                /\ f.content = optimized_files[i].content
                /\ reviewlog[i].applied = <<>>
                /\ ~f.aria_decision.implement_suggestions
                /\ f.aria_decision.approved_suggestions = <<>>
                /\ \E k \in 0..9 :
                      f.aria_decision.reasoning = "Approved 0, Rejected " \o str(k)

C27_Witness ==
    /\ Len(reviewed_files) = 2
    /\ reviewlog[1].answer = Text(<<Line("Error:", <<" timeout">>)>>)
    /\ reviewlog[2].answer = NotText
    /\ \A i \in 1..2 :
        /\ Len(reviewed_files[i].trinity_review.suggestions) = 2
        /\ reviewed_files[i].aria_decision.reasoning = "Approved 0, Rejected 0"
        /\ reviewed_files[i].content = optimized_files[i].content

\* The suggestions of the reviewers rs taken one by one: those parsed from a
\* reviewer's own response, none for a reviewer whose call failed.
RECURSIVE OwnSuggestions(_, _)
OwnSuggestions(rs, c) ==
    IF rs = <<>> THEN <<>>
    ELSE (IF c[Head(rs)].state = "done"
          THEN parse_trinity_suggestions(
                   [responses |-> <<[model |-> Head(rs), response |-> c[Head(rs)].response]>>])
          ELSE <<>>)
         \o OwnSuggestions(Tail(rs), c)

\* C28: when the decision step starts or has started for a file, the call of
\* every configured reviewer has answered or failed and none is pending; the
\* review is then available whichever reviewers failed, and its suggestions
\* are exactly those of the reviewers that answered.
C28_FanInIndependentFailure ==
    (trinity_client = "panel" /\ rpc \in {"aria_analyzes", "apply"}) =>
        /\ DOMAIN calls = {reviewers[k] : k \in 1..Len(reviewers)}
        /\ \A r \in DOMAIN calls : calls[r].state \in {"done", "failed"}
        /\ trinity_review.available
        /\ trinity_review.suggestions = OwnSuggestions(reviewers, calls)

C28_Witness ==
    /\ rpc = "apply"
    /\ reviewlog[Reviewing].decided = 1
    /\ calls = [r \in ReviewerNames |->
                  IF r = "claude" THEN Failed ELSE Done(Suggests("style"))]
    /\ Len(trinity_review.suggestions) = 1
    /\ trinity_review.suggestions[1].model = "gpt"
    /\ aria_decision.implement_suggestions

\* C29: no exception leaves execute_plan; when the Memory Hub cannot be
\* reached and execute_plan has returned, both of the agent's calls of it
\* ended in a logged warning, the number of files was reported as with a
\* working Memory Hub, and the call went on to the loops, or returned "No code
\* generated" exactly when no file was reported.
C29_SinkFailureHarmless ==
    /\ gpc # "raised"
    /\ (memory = "down" /\ gpc \notin {"idle", "code_task", "execute_plan"}) =>
        /\ stored = <<[warning |-> "Failed to store interaction"],
                      [warning |-> "Failed to store learning"]>>
        /\ reported \in 0..Len(LoopTask)
        /\ (reported = 0) <=> (gpc = "returned" /\ "error" \in DOMAIN returned)
        /\ gpc = "returned" => (reported > 0 <=> "files" \in DOMAIN returned)

C29_Witness ==
    /\ memory = "down"
    /\ gpc = "returned"
    /\ files_created = 2
    /\ stored[2] = [warning |-> "Failed to store learning"]
    /\ returned.status = "perfect"
    /\ Len(returned.files) = 2

\* C30: in perfect_loop a step that evaluates a gate evaluates it on the
\* text of the iteration and leaves the text as it is; the text changes only
\* in a step that completes a fix, and that step ends the iteration, so that a
\* text changes at most once in an iteration; while an iteration is under
\* way every gate evaluated in it has seen the present text.
C30_ContentChangesOnlyInFix ==
    [][\A t \in Tasks :
        /\ Evaluates(t) =>
            /\ code'[t] = code[t]
            /\ evaluated'[t][Len(evaluated'[t])].content = code[t]
        /\ code'[t] # code[t] =>
            /\ FixStep(t)
            /\ fixes'[t] = fixes[t] + 1
            /\ iteration'[t] = iteration[t]
            /\ pc'[t] = "while"
        /\ fixes[t] <= iteration[t]
        /\ pc[t] \notin {"idle", "while", "done"} =>
            \A i \in 1..Len(evaluated[t]) : evaluated[t][i].content = code[t]
      ]_vars

C30_Witness ==
    /\ pc["t1"] = "security_scan"
    /\ fixes["t1"] = 2
    /\ iteration["t1"] = 3
    /\ Len(evaluated["t1"]) = 4
    /\ code["t1"] # file_info["t1"].content
    /\ code["t1"] = lastFix["t1"]

\* C31: a failed static-analysis gate leads to a fix call that carries the
\* issue list, and the text the fix step returns is what the fixer answers to
\* that request, as for the other four gates; the loop then restarts at the
\* loop test.
C31_StaticFixFromFixer ==
    [][\A t \in Tasks :
        (pc[t] = "fix_static_issues" /\ pc'[t] # pc[t]) =>
            /\ Len(requests[t]) = 1
            /\ requests[t][1] = FixRequest("static", code[t], static_analysis(code[t]).issues)
            /\ code'[t] \in {FixFromChat(res, code[t]) : res \in chat}
            /\ pc'[t] = "while"
      ]_vars

\* C32: every file that generate_perfect_code returns with status 'perfect'
\* and security 'clean' has a content that passes all five gates.
C32_PerfectFilesPassGates ==
    (gpc = "returned" /\ "files" \in DOMAIN returned) =>
        \A i \in 1..Len(returned.files) :
            LET f == returned.files[i] IN
                (f.status = "perfect" /\ Get(f, "security") = "clean") =>
                    PassesAllGates(f.content)

\* C33: every suggestion of a review names the reviewer it came from and has
\* a category, and is one of the suggestions parsed from that reviewer's own
\* response; a label line before the first `Category:` line of a response
\* makes no suggestion.
C33_SuggestionsNamed ==
    (trinity_client = "panel" /\ rpc \in {"aria_analyzes", "apply"}) =>
        \A k \in 1..Len(trinity_review.suggestions) :
            LET s == trinity_review.suggestions[k] IN
                /\ {"model", "category"} \subseteq DOMAIN s
                /\ s.model \in DOMAIN calls
                /\ calls[s.model].state = "done"
                /\ LET own == parse_trinity_suggestions(
                                  [responses |-> <<[model |-> s.model,
                                                    response |-> calls[s.model].response]>>])
                   IN \E j \in 1..Len(own) : own[j] = s

\* The suggestion an entry of the approved or rejected list was made from.
Judged(entry) == [k \in DOMAIN entry \ {"aria_reasoning"} |-> entry[k]]

\* C34: when the answer to the analysis prompt has been read against
\* suggestions that differ from one another, no suggestion is in the approved
\* list twice and none is in both the approved and the rejected list.
C34_JudgedAtMostOnce ==
    (rpc = "apply" /\ reviewlog[Reviewing].asked = 1
     /\ \A i, j \in 1..Len(trinity_review.suggestions) :
            i # j => trinity_review.suggestions[i] # trinity_review.suggestions[j]) =>
        LET approved == aria_decision.approved_suggestions
            rejected == aria_decision.rejected_suggestions
        IN /\ \A i, j \in 1..Len(approved) :
                i # j => Judged(approved[i]) # Judged(approved[j])
           /\ \A i \in 1..Len(approved) : \A j \in 1..Len(rejected) :
                Judged(approved[i]) # Judged(rejected[j])

C36_EachCallFullBudget ==
    [][\A t \in Tasks :
        /\ (pc[t] = "idle" /\ pc'[t] # "idle") => fix_attempts' = 0
        /\ pc'[t] = "done" =>
            /\ result'[t].iterations = fixes'[t]
            /\ result'[t].status = "best_effort" => fixes'[t] = max_fix_attempts
        /\ pc[t] \notin {"idle", "done"} =>
            \A u \in Tasks \ {t} : pc[u] \in {"idle", "done"}
      ]_vars

C36_Witness ==
    /\ pc["t1"] = "done"
    /\ pc["t2"] = "done"
    /\ result["t1"].status = "best_effort"
    /\ result["t1"].iterations = max_fix_attempts
    /\ result["t2"].status = "perfect"
    /\ result["t2"].iterations = 1
    /\ fixes["t2"] = 1


PhaseStarted(p) == \E i \in 1..Len(phases) : phases[i].phase = p
PhaseRaised(p) ==
    \E i \in 1..Len(phases) : phases[i].phase = p /\ phases[i].outcome = "raises"

\* C37: create_autonomous_software starts the repository and the deployment
\* phase only after generate_perfect_code returned status 'perfect'; when it
\* did not, the call returns success false and no phase has run; an exception
\* of the repository phase is recorded as github_error, leaves success true,
\* and the deployment phase still runs unless it is skipped.
C37_PhasesOnlyAfterPerfect ==
    /\ phases # <<>> => gpc = "returned" /\ Get(returned, "status") = "perfect"
    /\ (epc = "returned" /\ (gpc # "returned" \/ Get(returned, "status") # "perfect"))
        => ~creation.success /\ phases = <<>>
    /\ PhaseRaised("github") =>
        /\ creation.success
        /\ Get(creation, "repo") = NoValue
        /\ Get(creation, "github_error") = Message
        /\ (epc = "returned" /\ ~skip_aws) => PhaseStarted("aws")

C37_Witness ==
    /\ epc = "returned"
    /\ PhaseRaised("github")
    /\ PhaseStarted("aws")
    /\ creation.success
    /\ Get(returned, "status") = "perfect"

====
